---- MODULE Spec2Model ----
(***************************************************************************)
(* Health-records dashboard: field normalizer and paginating fetch         *)
(* (lib/supabase.ts), the cross-year cohort computations of the pages      *)
(* (Drinking, Smoking, Overview, OccupationalMedicine, EmployeeOverview),  *)
(* the pages' loading of the year tables and the upload of a file.         *)
(*                                                                         *)
(* Conventions                                                             *)
(*  - A JavaScript value is a record [t, b, s, n]: t is the typeof tag     *)
(*    ("null", "undefined", "boolean", "string", "number"), and b, s, n    *)
(*    hold the boolean, the string or the number.                          *)
(*  - A JavaScript string VALUE is the sequence of its UTF-16 code units,  *)
(*    one TLA+ string per unit, so that trim, startsWith and toLowerCase   *)
(*    are computed and not assumed.  Non-ASCII units are written as ASCII  *)
(*    tokens: "u:" is U+00FC (the checkmark glyph of the source sheets),   *)
(*    "TH_AI" "TH_M" "TH_EK" are U+0E44 U+0E21 U+0E48 (the Thai negation   *)
(*    prefix), "TH_S" "TH_UU" "TH_B" "TH_D" "TH_UEE" are other Thai units. *)
(*  - An object KEY is an atomic TLA+ string (keys are only compared for   *)
(*    equality).  Thai column labels are written "th:<romanisation>".      *)
(*  - An object is the sequence of its cells [key, value] in property      *)
(*    (insertion) order.                                                   *)
(***************************************************************************)
EXTENDS Integers, Sequences, FiniteSets, TLC

VARIABLES
  data,          \* normalizeData's argument: the raw rows
  normalized,    \* normalizeData(data)
  renormalized,  \* normalizeData(normalized): rows stored normalized and read back
  npc,           \* "input" | "normalized" | "renormalized"
  data2024,      \* page state: the before-year collection
  data2025,      \* page state: the after-year collection
  view,          \* what a page derived from data2024/data2025 at its last render
  cpc,           \* "loaded" | "drinking" | "overview" | "employees"
  year,          \* the year selected in the application ("2024" | "2025" | ...;
                 \* the units of the label where years are added)
  table,         \* fetchAll: the rows of the table in the store, in store order
  page,          \* fetchAll: let page
  results,       \* fetchAll: const results
  requests,      \* fetchAll: the ranges asked of the store so far
  response,      \* fetchAll: { data, error } of the last range
  outcome,       \* fetchAll: pending, the rows returned or the error thrown
  fpc,           \* "idle" | "fetching" | "returned" | "thrown"
  health_2024,   \* the store: the rows of table health_2024
  health_2025,   \* the store: the rows of table health_2025
  isSupabaseConfigured,
  loading,       \* page state
  error,         \* page state: null or the message shown
  r2024,         \* fetchData: the answer to the health_2024 query
  r2025,         \* fetchData: the answer to the health_2025 query
  lpc,           \* "idle" | "mounted" | "awaiting" | "done" | "effects run"
  dataset,       \* the store: the rows of the table an upload writes to
  parsedRows,    \* Upload state: the normalized rows of the chosen file
  uploadYear,    \* Upload state: year
  uploading,     \* Upload state
  result,        \* Upload state: null or { success, errors }
  uploadError,   \* Upload state: error
  batchStart,    \* handleUpload: the loop index i
  successCount,  \* handleUpload
  errorCount,    \* handleUpload
  replies,       \* the error codes the store answered the upserts with ("" is none)
  stored,        \* the rows of dataset at the end of each completed handleUpload
  upc,           \* "idle" | "ready" | "uploading"
  health_2026,   \* the store: the rows of table health_2026
  mounted,       \* the page shown: "none" | "overview" | "employees" | "drinking"
  pageData,      \* page state: data, the selected year's collection
  fetches,       \* the fetchData calls of the page, in the order they started
  sent,          \* handleUpload: the batches given to upsert by the current call
  years,         \* App state: the years of the top bar
  localStorage,  \* the item 'healthdash_years' of localStorage: null or its text
  file,          \* Upload state: null or the name of the file shown as selected
  totalRows,     \* Upload state
  preview,       \* Upload state
  reading,       \* the files a FileReader is reading
  picked         \* the files given to processFile so far

vars == <<data, normalized, renormalized, npc, data2024, data2025, view, cpc, year,
          table, page, results, requests, response, outcome, fpc,
          health_2024, health_2025, isSupabaseConfigured, loading, error,
          r2024, r2025, lpc,
          dataset, parsedRows, uploadYear, uploading, result, uploadError, batchStart,
          successCount, errorCount, replies, stored, upc,
          health_2026, mounted, pageData, fetches,
          sent, years, localStorage, file, totalRows, preview, reading, picked>>

normVars == <<data, normalized, renormalized, npc>>
cohortVars == <<data2024, data2025, view, cpc, year>>
fetchVars == <<table, page, results, requests, response, outcome, fpc>>
loadVars == <<health_2024, health_2025, isSupabaseConfigured, loading, error,
              r2024, r2025, lpc>>
uploadVars == <<dataset, parsedRows, uploadYear, uploading, result, uploadError, batchStart,
                successCount, errorCount, replies, stored, upc, sent>>
pageVars == <<health_2026, mounted, pageData, fetches>>
yearVars == <<years, localStorage>>
fileVars == <<file, totalRows, preview, reading, picked>>
ioVars == <<fetchVars, loadVars, uploadVars, pageVars, yearVars, fileVars>>

-----------------------------------------------------------------------------
(* Bounds of the model *)

MaxRows == 2      \* rows in a multi-row argument of normalizeData
MaxCells == 2     \* cells in a row of a single-row argument
MaxRecords == 3   \* records of data2024 and data2025 together

-----------------------------------------------------------------------------
(* Nothing in flight *)

NoResponse == [error |-> "", data |-> <<>>]
Pending == [kind |-> "pending", rows |-> <<>>, error |-> ""]

FetchIdle ==
  /\ table = <<>>
  /\ page = 0
  /\ results = <<>>
  /\ requests = <<>>
  /\ response = NoResponse
  /\ outcome = Pending
  /\ fpc = "idle"

Unsettled == [status |-> "pending", failed |-> FALSE, message |-> <<>>, data |-> <<>>]

LoadIdle ==
  /\ health_2024 = <<>>
  /\ health_2025 = <<>>
  /\ isSupabaseConfigured = FALSE
  /\ loading = FALSE
  /\ error = [t |-> "null", b |-> FALSE, s |-> <<>>, n |-> 0]
  /\ r2024 = Unsettled
  /\ r2025 = Unsettled
  /\ lpc = "idle"

NoResult == [set |-> FALSE, success |-> 0, errors |-> 0]

UploadIdle ==
  /\ dataset = <<>>
  /\ parsedRows = <<>>
  /\ uploadYear = <<>>
  /\ uploading = FALSE
  /\ result = NoResult
  /\ uploadError = [t |-> "null", b |-> FALSE, s |-> <<>>, n |-> 0]
  /\ batchStart = 0
  /\ successCount = 0
  /\ errorCount = 0
  /\ replies = <<>>
  /\ stored = <<>>
  /\ upc = "idle"
  /\ sent = <<>>

PageIdle ==
  /\ health_2026 = <<>>
  /\ mounted = "none"
  /\ pageData = <<>>
  /\ fetches = <<>>

YearIdle ==
  /\ years = <<>>
  /\ localStorage = [t |-> "null", b |-> FALSE, s |-> <<>>, n |-> 0]

FileIdle ==
  /\ file = [t |-> "null", b |-> FALSE, s |-> <<>>, n |-> 0]
  /\ totalRows = 0
  /\ preview = <<>>
  /\ reading = {}
  /\ picked = <<>>

IoIdle == FetchIdle /\ LoadIdle /\ UploadIdle /\ PageIdle /\ YearIdle /\ FileIdle

-----------------------------------------------------------------------------
(* JavaScript values *)

Null == [t |-> "null", b |-> FALSE, s |-> <<>>, n |-> 0]
Undefined == [t |-> "undefined", b |-> FALSE, s |-> <<>>, n |-> 0]
Bool(x) == [t |-> "boolean", b |-> x, s |-> <<>>, n |-> 0]
Str(x) == [t |-> "string", b |-> FALSE, s |-> x, n |-> 0]
Num(x) == [t |-> "number", b |-> FALSE, s |-> <<>>, n |-> x]

Checkmark == <<"u:">>
ThaiNegation == <<"TH_AI", "TH_M", "TH_EK">>

UpperCase == <<"A","B","C","D","E","F","G","H","I","J","K","L","M",
               "N","O","P","Q","R","S","T","U","V","W","X","Y","Z">>
LowerCase == <<"a","b","c","d","e","f","g","h","i","j","k","l","m",
               "n","o","p","q","r","s","t","u","v","w","x","y","z">>

WhiteSpace == {" ", "\t", "\n"}

Digits == <<"0","1","2","3","4","5","6","7","8","9">>

\* String.prototype.toLowerCase, unit by unit
lowerUnit(c) ==
  IF \E i \in 1..26 : UpperCase[i] = c
  THEN LowerCase[CHOOSE i \in 1..26 : UpperCase[i] = c]
  ELSE c

toLowerCase(s) == [i \in 1..Len(s) |-> lowerUnit(s[i])]

\* String.prototype.trim
trim(s) ==
  LET keep == {i \in 1..Len(s) : s[i] \notin WhiteSpace}
  IN IF keep = {} THEN <<>>
     ELSE LET lo == CHOOSE i \in keep : \A j \in keep : i <= j
              hi == CHOOSE i \in keep : \A j \in keep : i >= j
          IN SubSeq(s, lo, hi)

\* String.prototype.startsWith
startsWith(s, prefix) ==
  /\ Len(s) >= Len(prefix)
  /\ SubSeq(s, 1, Len(prefix)) = prefix

\* decimal digits of a natural number
RECURSIVE digitsOf(_)
digitsOf(n) ==
  IF n < 10 THEN <<Digits[n + 1]>>
  ELSE digitsOf(n \div 10) \o <<Digits[(n % 10) + 1]>>

\* String(value), for the values that reach it in toBooleanFlag
String(value) ==
  CASE value.t = "string" -> value.s
    [] value.t = "number" -> digitsOf(value.n)
    [] value.t = "boolean" -> IF value.b THEN <<"t","r","u","e">> ELSE <<"f","a","l","s","e">>
    [] value.t = "null" -> <<"n","u","l","l">>
    [] OTHER -> <<"u","n","d","e","f","i","n","e","d">>

-----------------------------------------------------------------------------
(* lib/supabase.ts: the raw-label -> canonical-name table *)

THAI_TO_ENGLISH_MAP == <<
  \* Identity
  <<"HN", "hn">>,
  <<"th:rahat", "employee_id">>,
  <<"th:chue - namsakun", "full_name">>,
  <<"th:chue-namsakun", "full_name">>,
  <<"th:chue - namsakun (thai)", "full_name">>,
  <<"th:chue - namsakun (ENG)", "full_name_eng">>,
  <<"th:phanaek", "department">>,
  <<"th:tamnaeng", "position">>,
  <<"th:sakha", "branch">>,
  <<"th:rongngan", "factory">>,
  <<"Function", "function">>,
  <<"Sub-Function", "sub_function">>,
  <<"Category", "category">>,
  <<"Sub-Category", "sub_category">>,
  <<"Group", "group">>,
  <<"Age", "age">>,
  <<"Year of Service", "year_of_service">>,
  <<"M or F", "gender">>,
  <<"Year", "year">>,
  <<"th:sangkat SVP", "svp_group">>,
  <<"VP", "vp">>,
  <<"th:wanthi la-ok", "resignation_date">>,
  \* Vitals
  <<"BP-H", "bp_high">>,
  <<"BP-L", "bp_low">>,
  <<"th:namnak", "weight">>,
  <<"th:suansung", "height">>,
  <<"BMI", "bmi">>,
  <<"SMOKE", "smoke">>,
  <<"DRINK", "drink">>,
  <<"th:sarup phon khwamdan", "bp_result">>,
  <<"th:phon kan truat", "overall_result">>,
  \* Lab tests
  <<"th:truat rok hophuet phumphae", "asthma_allergy">>,
  <<"Complete Blood Count", "cbc_result">>,
  <<"Urine Analysis", "ua_result">>,
  <<"FBS 70-110 mg%", "fbs">>,
  <<"Cholesterol 0-200 mg%", "cholesterol">>,
  <<"Triglyceride 30-150  mg%", "triglyceride">>,
  <<"Triglyceride 30-150 mg%", "triglyceride">>,
  <<"HDL  >35 mg/dl", "hdl">>,
  <<"HDL >35 mg/dl", "hdl">>,
  <<"LDL <=130 mg/dl", "ldl">>,
  <<"Uric Acid 2.4-7.0 mg%", "uric_acid">>,
  <<"B.U.N 5-25 mg%", "bun">>,
  <<"B.U.N", "bun">>,
  <<"Creatinine 0.7-1.5 mg%", "creatinine">>,
  <<"Creatinine", "creatinine">>,
  <<"SGOT 5-40 U/L", "sgot">>,
  <<"SGOT", "sgot">>,
  <<"SGPT 5-40 U/L", "sgpt">>,
  <<"SGPT", "sgpt">>,
  <<"HBs Ag (Negative)", "hbs_ag">>,
  <<"HBs Ag", "hbs_ag">>,
  <<"HBs Ab (Negative)", "hbs_ab">>,
  <<"HBs Ab", "hbs_ab">>,
  <<"HAV lgM (Negative)", "hav_igm">>,
  <<"Anti HAV (Negative)", "anti_hav">>,
  <<"PSA 0 - 4 ng/ml", "psa">>,
  <<"Lead in Blood < 60 ug/dl", "lead_in_blood">>,
  <<"2,5 Hexanedion in Urine < 0.5 mg/L", "hexanedione">>,
  <<"Methyl Ethyl Ketone in Urine < 2 mg/L", "mek">>,
  <<"Methanal in Urine < 15 mg/L", "methanal">>,
  <<"Stool Examintion                          (Parasit Not Found)", "stool_exam">>,
  <<"Stool Culture (Not-Growth)", "stool_culture">>,
  <<"Amphetamine (Negative)", "amphetamine">>,
  \* Occupational health
  <<"th:eksare suang-ok", "chest_xray">>,
  <<"th:truat khrongsang kraduk san", "bone_structure">>,
  <<"th:samatthaphap kan dai-yin", "hearing_test">>,
  <<"th:samatthaphap khwamchu pot", "spirometry">>,
  <<"th:samatthaphap saita achiwa-ana", "vision_occupational">>,
  <<"th:samatthaphap saita achiwa-anamai", "vision_occupational">>,
  <<"th:khluen faifa huachai", "ekg">>,
  \* Questionnaire / mental health
  <<"th:khwam phitpokkati khong huachai lae lotlueat - khwamdan", "cardiovascular_issues">>,
  <<"th:klum prasat lae samong", "neurological_issues">>,
  <<"th:than ya nonlap", "sleeping_pills">>,
  <<"th:rok titto", "infectious_disease">>,
  <<"th:klum rok baowan thi tong chit insulin", "insulin_diabetes">>,
  <<"th:baep thotsop wat radap khwam nguang non klangwan (khanaen)", "sleepiness_score">>,
  <<"th:baep thotsop wat radap khwam nguang non klangwan", "sleepiness_result">>,
  <<"th:baep thotsop kan nonlap (khanaen)", "sleep_test_score">>,
  <<"th:khwam phitpokkati khong kan nonlap", "sleep_disorder_result">>,
  <<"th:baep thotsop saphap dan chit (khanaen)", "mental_health_score">>,
  <<"th:khwam phitpokkati thang dan chitchai", "mental_health_result">>
>>

\* the table's own keys
RawLabels == {THAI_TO_ENGLISH_MAP[i][1] : i \in 1..Len(THAI_TO_ENGLISH_MAP)}

\* Variant of englishKey: runs of spaces in the label are collapsed before the
\* lookup (Collapsed lists the collapsed form of the labels that have one)
Collapsed == <<
  <<"Triglyceride 30-150  mg%", "Triglyceride 30-150 mg%">>,
  <<"Triglyceride 30-150   mg%", "Triglyceride 30-150 mg%">>,
  <<"HDL  >35 mg/dl", "HDL >35 mg/dl">>,
  <<"HDL   >35 mg/dl", "HDL >35 mg/dl">>
>>

englishKeyCollapsing(key) ==
  LET k == IF \E i \in 1..Len(Collapsed) : Collapsed[i][1] = key
           THEN Collapsed[CHOOSE i \in 1..Len(Collapsed) : Collapsed[i][1] = key][2]
           ELSE key
  IN IF k \in RawLabels
     THEN THAI_TO_ENGLISH_MAP[CHOOSE i \in 1..Len(THAI_TO_ENGLISH_MAP) :
                                THAI_TO_ENGLISH_MAP[i][1] = k][2]
     ELSE key

\* Variant of englishKey: an unknown label falls back to key.toUpperCase()
\* (UpperKey lists the upper-case form of the labels that change under it)
UpperKey == <<
  <<"smoke", "SMOKE">>, <<"drink", "DRINK">>, <<"bmi", "BMI">>,
  <<"triglyceride", "TRIGLYCERIDE">>, <<"branch", "BRANCH">>,
  <<"Remark", "REMARK">>
>>

englishKeyUpperFallback(key) ==
  IF key \in RawLabels
  THEN THAI_TO_ENGLISH_MAP[CHOOSE i \in 1..Len(THAI_TO_ENGLISH_MAP) :
                             THAI_TO_ENGLISH_MAP[i][1] = key][2]
  ELSE IF \E i \in 1..Len(UpperKey) : UpperKey[i][1] = key
       THEN UpperKey[CHOOSE i \in 1..Len(UpperKey) : UpperKey[i][1] = key][2]
       ELSE key

\* THAI_TO_ENGLISH_MAP[key] || key   (every mapped name is a non-empty string)
englishKey(key) ==
  IF key \in RawLabels
  THEN THAI_TO_ENGLISH_MAP[CHOOSE i \in 1..Len(THAI_TO_ENGLISH_MAP) :
                             THAI_TO_ENGLISH_MAP[i][1] = key][2]
  ELSE key

-----------------------------------------------------------------------------
(* lib/supabase.ts: toBooleanFlag and normalizeData *)

falsy == { <<"f","a","l","s","e">>, <<"n","o">>, <<"0">>, <<"-">>,
           <<"n","/","a">>, <<"n","o","n","e">> }

\* Variant of toBooleanFlag: the vocabulary is compared without toLowerCase
toBooleanFlagCaseSensitive(value) ==
  IF value = Null \/ value = Undefined \/ value = Str(<<>>) THEN FALSE
  ELSE IF value.t = "boolean" THEN value.b
  ELSE IF value = Str(Checkmark) THEN TRUE
  ELSE LET s == trim(String(value))
       IN IF startsWith(s, ThaiNegation) THEN FALSE
          ELSE Len(s) > 0 /\ s \notin falsy

toBooleanFlag(value) ==
  IF value = Null \/ value = Undefined \/ value = Str(<<>>) THEN FALSE
  ELSE IF value.t = "boolean" THEN value.b
  ELSE IF value = Str(Checkmark) THEN TRUE
  ELSE LET s == trim(String(value))
       IN IF startsWith(s, ThaiNegation) THEN FALSE
          ELSE Len(s) > 0 /\ toLowerCase(s) \notin falsy

\* parseFloat of a string of decimal digits
RECURSIVE parseDigits(_, _)
parseDigits(s, acc) ==
  IF s = <<>> THEN acc
  ELSE parseDigits(Tail(s), 10 * acc + ((CHOOSE i \in 1..10 : Digits[i] = Head(s)) - 1))

isDigits(s) == Len(s) > 0 /\ \A i \in 1..Len(s) : \E d \in 1..10 : Digits[d] = s[i]

\* Variant of coerce: a numeric string of a non-flag field is parsed to a number
coerceParsing(key, value) ==
  IF key = "drink" \/ key = "smoke" THEN Bool(toBooleanFlag(value))
  ELSE IF value = Str(Checkmark) THEN Bool(TRUE)
  ELSE IF value.t = "string" /\ isDigits(value.s) THEN Num(parseDigits(value.s, 0))
  ELSE value

\* lines 160-165: the value stored under englishKey
coerce(key, value) ==
  IF key = "drink" \/ key = "smoke" THEN Bool(toBooleanFlag(value))
  ELSE IF value = Str(Checkmark) THEN Bool(TRUE)
  ELSE value

\* normalized[englishKey] = value: an existing property keeps its position
\* and takes the new value, a new property is appended
setProperty(obj, key, value) ==
  IF \E i \in 1..Len(obj) : obj[i].key = key
  THEN [i \in 1..Len(obj) |-> IF obj[i].key = key
                              THEN [key |-> key, value |-> value]
                              ELSE obj[i]]
  ELSE Append(obj, [key |-> key, value |-> value])

\* Object.keys(item).forEach(...), from cell k on, into the object built so far
RECURSIVE forEachKey(_, _, _)
forEachKey(item, k, obj) ==
  IF k > Len(item) THEN obj
  ELSE forEachKey(item, k + 1,
                  setProperty(obj, englishKey(item[k].key),
                              coerce(englishKey(item[k].key), item[k].value)))

normalizeItem(item) == forEachKey(item, 1, <<>>)

\* Variant of normalizeData: rows that normalize to an empty object or carry no
\* label of the table are filtered out
normalizeDataDropping(arg) ==
  IF ~arg.array THEN <<>>
  ELSE LET kept == SelectSeq(arg.rows,
                     LAMBDA item : \E k \in 1..Len(item) : item[k].key \in RawLabels)
       IN [i \in 1..Len(kept) |-> normalizeItem(kept[i])]

\* the argument is [array |-> is it an array, rows |-> its elements]
normalizeData(arg) ==
  IF ~arg.array THEN <<>>
  ELSE [i \in 1..Len(arg.rows) |-> normalizeItem(arg.rows[i])]

Array(rows) == [array |-> TRUE, rows |-> rows]
NotAnArray == [array |-> FALSE, rows |-> <<>>]

-----------------------------------------------------------------------------
(* Numbers of the pages.  A rate or a difference of rates is the exact       *)
(* fraction [num, den] in lowest terms, den > 0; [0, 0] is NaN.  The counts  *)
(* are far below 2^53, so the doubles the pages compute are ordered, equal   *)
(* and signed exactly as these fractions are.                                *)

RECURSIVE GCD(_, _)
GCD(a, b) == IF b = 0 THEN a ELSE GCD(b, a % b)

Abs(a) == IF a < 0 THEN -a ELSE a

Frac(a, b) ==
  LET g == GCD(Abs(a), b)
  IN [num |-> (IF a < 0 THEN -(Abs(a) \div g) ELSE a \div g), den |-> b \div g]

NaN == [num |-> 0, den |-> 0]
Zero == [num |-> 0, den |-> 1]

isNaN(x) == x.den = 0

\* x - y
Minus(x, y) ==
  IF isNaN(x) \/ isNaN(y) THEN NaN
  ELSE Frac(x.num * y.den - y.num * x.den, x.den * y.den)

\* x > 0, x < 0 (false of NaN)
Positive(x) == x.den > 0 /\ x.num > 0
Negative(x) == x.den > 0 /\ x.num < 0

\* Variant of rate: no guard on total, 0 / 0 is NaN
rateUnguarded(n, total) ==
  IF total > 0 THEN Frac(n * 100, total) ELSE NaN

\* const rate = (n, total) => total > 0 ? (n / total) * 100 : 0
rate(n, total) ==
  IF total > 0 THEN Frac(n * 100, total) ELSE Zero

-----------------------------------------------------------------------------
(* pages/Drinking.tsx (pages/Smoking.tsx is the same code over d.smoke)      *)

drinkers(coll) == SelectSeq(coll, LAMBDA d : d.drink)

drinkRate(coll) == rate(Len(drinkers(coll)), Len(coll))

\* Variant of ratePointDelta: before minus after
ratePointDeltaReversed(before, after) ==
  Minus(drinkRate(before), drinkRate(after))

\* Variant of ratePointDelta: the magnitude of the difference
ratePointDeltaAbs(before, after) ==
  LET delta == Minus(drinkRate(after), drinkRate(before))
  IN [num |-> Abs(delta.num), den |-> delta.den]

\* delta={drinkRate2025 - drinkRate2024}
ratePointDelta(before, after) == Minus(drinkRate(after), drinkRate(before))

\* TrendChip: the icon shown and whether it is coloured as bad
TrendChip(delta, inverted) ==
  IF isNaN(delta) \/ delta = Zero THEN [icon |-> "minus", bad |-> FALSE, plus |-> FALSE]
  ELSE [icon |-> IF Positive(delta) THEN "up" ELSE "down",
        bad |-> IF inverted THEN Positive(delta) ELSE Negative(delta),
        plus |-> Positive(delta)]

\* Variant of find: the last element with the id
findLast(coll, id) ==
  LET hits == {i \in 1..Len(coll) : coll[i].employee_id = id}
  IN IF hits = {} THEN 0 ELSE CHOOSE i \in hits : \A j \in hits : j <= i

\* coll.find(e => e.employee_id === id): the index of the first such element,
\* 0 for undefined
find(coll, id) ==
  LET hits == {i \in 1..Len(coll) : coll[i].employee_id = id}
  IN IF hits = {} THEN 0 ELSE CHOOSE i \in hits : \A j \in hits : i <= j

\* Variant of newDrinkers: every after-year drinker, whatever the before year says
newDrinkersUnmatched(d2024, d2025) ==
  SelectSeq(d2025, LAMBDA emp25 : emp25.drink)

newDrinkers(d2024, d2025) ==
  SelectSeq(d2025, LAMBDA emp25 :
    LET emp24 == find(d2024, emp25.employee_id)
    IN emp25.drink /\ (emp24 = 0 \/ ~d2024[emp24].drink))

\* Variant of quitters: an employee without a record in the after year counts
quittersCountingAbsent(d2024, d2025) ==
  SelectSeq(d2024, LAMBDA emp24 :
    LET emp25 == find(d2025, emp24.employee_id)
    IN emp24.drink /\ (emp25 = 0 \/ ~d2025[emp25].drink))

quitters(d2024, d2025) ==
  SelectSeq(d2024, LAMBDA emp24 :
    LET emp25 == find(d2025, emp24.employee_id)
    IN emp24.drink /\ emp25 # 0 /\ ~d2025[emp25].drink)

\* Array.from(new Set(seq)): first occurrences, in order
RECURSIVE fromSet(_)
fromSet(seq) ==
  IF seq = <<>> THEN <<>>
  ELSE LET front == fromSet(SubSeq(seq, 1, Len(seq) - 1))
           last == seq[Len(seq)]
       IN IF \E i \in 1..Len(front) : front[i] = last THEN front ELSE Append(front, last)

branchOf(coll) == [i \in 1..Len(coll) |-> coll[i].branch]

\* Variant of allBranches: the branches of the before year only
allBranchesBeforeOnly(d2024, d2025) ==
  fromSet(SelectSeq(branchOf(d2024), LAMBDA b : b # ""))

\* Array.from(new Set([...data2024, ...data2025].map(d => d.branch).filter(Boolean)))
allBranches(d2024, d2025) ==
  fromSet(SelectSeq(branchOf(d2024 \o d2025), LAMBDA b : b # ""))

\* Variant of sort: among elements that compare equal the later one goes first
sortTiesReversed(arr, after) ==
  LET n == Len(arr)
      rank(i) == 1 + Cardinality({j \in 1..n :
                       j # i /\ (after[i][j] \/ (j > i /\ ~after[j][i]))})
  IN [p \in 1..n |-> arr[CHOOSE i \in 1..n : rank(i) = p]]

\* Array.prototype.sort, which is stable: after[i][j] is "compare(arr[i], arr[j])
\* > 0", arr[i] sorts after arr[j].  An element comes behind the elements that
\* sort before it and behind the earlier elements it compares equal to.
sort(arr, after) ==
  LET n == Len(arr)
      rank(i) == 1 + Cardinality({j \in 1..n :
                       j # i /\ (after[i][j] \/ (j < i /\ ~after[j][i]))})
  IN [p \in 1..n |-> arr[CHOOSE i \in 1..n : rank(i) = p]]

\* x < y for fractions
Less(x, y) == x.num * y.den < y.num * x.den

\* data.filter(d => d.branch === branch).length
branchTotal(coll, branch) == Len(SelectSeq(coll, LAMBDA d : d.branch = branch))

\* data.filter(d => d.branch === branch && d.drink).length
branchDrinkers(coll, branch) ==
  Len(SelectSeq(coll, LAMBDA d : d.branch = branch /\ d.drink))

branches(d2024, d2025) ==
  LET all == allBranches(d2024, d2025)
      rows == [b \in 1..Len(all) |->
                 LET branch == all[b]
                     total24 == branchTotal(d2024, branch)
                     total25 == branchTotal(d2025, branch)
                     drink24 == branchDrinkers(d2024, branch)
                     drink25 == branchDrinkers(d2025, branch)
                 IN [name |-> branch,
                     rate2024 |-> rate(drink24, total24),
                     rate2025 |-> rate(drink25, total25),
                     drinkers2024 |-> drink24,
                     drinkers2025 |-> drink25,
                     total2024 |-> total24,
                     total2025 |-> total25]]
  IN \* .sort((a, b) => b.rate2025 - a.rate2025)
     sort(rows, [i \in 1..Len(rows) |-> [j \in 1..Len(rows) |->
                   Less(rows[i].rate2025, rows[j].rate2025)]])

-----------------------------------------------------------------------------
(* pages/Overview.tsx *)

branchData(d2024, d2025) ==
  LET all == allBranches(d2024, d2025)
      rows == [b \in 1..Len(all) |->
                 LET branch == all[b]
                 IN [name |-> branch,
                     count2024 |-> branchTotal(d2024, branch),
                     count2025 |-> branchTotal(d2025, branch),
                     drink2024 |-> branchDrinkers(d2024, branch),
                     drink2025 |-> branchDrinkers(d2025, branch)]]
  IN \* .sort((a, b) => (b.count2024 + b.count2025) - (a.count2024 + a.count2025))
     sort(rows, [i \in 1..Len(rows) |-> [j \in 1..Len(rows) |->
                   rows[i].count2024 + rows[i].count2025
                     < rows[j].count2024 + rows[j].count2025]])

-----------------------------------------------------------------------------
(* Arguments of normalizeData *)

\* all sequences over S of length 0..n
RECURSIVE SeqsUpTo(_, _)
SeqsUpTo(S, n) ==
  IF n = 0 THEN {<<>>}
  ELSE LET shorter == SeqsUpTo(S, n - 1)
       IN shorter \cup {Append(q, x) : q \in {r \in shorter : Len(r) = n - 1}, x \in S}

Cell(k, v) == [key |-> k, value |-> v]

ThaiNoSmoke == ThaiNegation \o <<"TH_S", "TH_UU", "TH_B">>   \* "does not smoke"
ThaiSmoke == <<"TH_S", "TH_UU", "TH_B">>                      \* "smokes"

\* labels: raw spellings of the table, canonical names, an unlisted spacing
\* variant (three spaces) and a column the table does not know
ProbeKeys == {
  "SMOKE", "DRINK", "smoke", "drink", "BMI", "bmi", "th:sakha", "branch",
  "Triglyceride 30-150  mg%", "Triglyceride 30-150 mg%",
  "Triglyceride 30-150   mg%", "triglyceride", "HDL  >35 mg/dl", "Remark" }

ProbeStrings == {
  <<>>, Checkmark, Checkmark \o <<" ">>, <<" ">>, <<" ", "\t">>,
  ThaiNoSmoke, <<" ">> \o ThaiNoSmoke, ThaiNegation, <<"TH_AI", "TH_M">>, ThaiSmoke,
  <<"n","o">>, <<"N","O">>, <<"N","o"," ">>, <<"n","o","p","e">>,
  <<"f","a","l","s","e">>, <<"F","a","l","s","e">>, <<"t","r","u","e">>,
  <<"0">>, <<"1">>, <<"1","2","0">>, <<"-">>, <<" ","-"," ">>, <<"-","-">>,
  <<"n","/","a">>, <<"N","/","A">>, <<"n","o","n","e">>, <<"N","o","n","e">>,
  <<"y","e","s">> }

ProbeValues ==
  {Null, Undefined, Bool(TRUE), Bool(FALSE), Num(0), Num(1), Num(120)}
    \cup {Str(x) : x \in ProbeStrings}

\* one row of one cell: every label with every value
ProbeRows == {<<Cell(k, v)>> : k \in ProbeKeys, v \in ProbeValues}

MixKeys == {"SMOKE", "smoke", "Triglyceride 30-150  mg%", "Triglyceride 30-150 mg%",
            "Triglyceride 30-150   mg%", "triglyceride", "Remark"}
MixValues == {Str(Checkmark), Str(<<"n","o">>), Str(<<"1","2","0">>)}

\* rows of up to MaxCells cells with pairwise different labels
MixRows ==
  {r \in SeqsUpTo({Cell(k, v) : k \in MixKeys, v \in MixValues}, MaxCells) :
     \A i, j \in 1..Len(r) : i # j => r[i].key # r[j].key}

SampleRows == {
  <<>>,
  <<Cell("Remark", Str(<<"y","e","s">>)), Cell("smoke", Str(ThaiNoSmoke))>>,
  <<Cell("SMOKE", Str(Checkmark)), Cell("th:sakha", Str(<<"A">>))>>,
  <<Cell("DRINK", Str(<<"n","o">>))>>,
  <<Cell("Triglyceride 30-150  mg%", Str(<<"1","2","0">>)),
    Cell("Triglyceride 30-150 mg%", Str(<<"9","5">>))>> }

Arguments ==
  {NotAnArray}
    \cup {Array(<<r>>) : r \in ProbeRows \cup MixRows}
    \cup {Array(q) : q \in SeqsUpTo(SampleRows, MaxRows)}

-----------------------------------------------------------------------------
(* Pages: nothing loaded *)

NoView == [page |-> "none"]

CohortIdle ==
  /\ data2024 = <<>>
  /\ data2025 = <<>>
  /\ view = NoView
  /\ cpc = "idle"
  /\ year = "2024"

-----------------------------------------------------------------------------
(* The normalizer as a state machine *)

NormInit ==
  /\ data \in Arguments
  /\ normalized = <<>>
  /\ renormalized = <<>>
  /\ npc = "input"
  /\ CohortIdle
  /\ IoIdle

\* normalizeData(data): Upload.processFile line 46, the pages' fetchData
Normalize ==
  /\ npc = "input"
  /\ normalized' = normalizeData(data)
  /\ npc' = "normalized"
  /\ UNCHANGED <<data, renormalized, cohortVars, ioVars>>

\* rows uploaded normalized are normalized again when a page fetches them
Renormalize ==
  /\ npc = "normalized"
  /\ renormalized' = normalizeData(Array(normalized))
  /\ npc' = "renormalized"
  /\ UNCHANGED <<data, normalized, cohortVars, ioVars>>

NormNext == Normalize \/ Renormalize

SpecNorm == NormInit /\ [][NormNext]_vars

-----------------------------------------------------------------------------
(* Properties of the normalizer *)

hasKey(obj, key) == \E i \in 1..Len(obj) : obj[i].key = key
valueOf(obj, key) == obj[CHOOSE i \in 1..Len(obj) : obj[i].key = key].value
keysOf(obj) == [i \in 1..Len(obj) |-> obj[i].key]

FlagFields == {"smoke", "drink"}

\* cell k of item is the last cell of item that resolves to its canonical name
lastFor(item, k) ==
  \A j \in (k + 1)..Len(item) : englishKey(item[j].key) # englishKey(item[k].key)

Normalized == npc # "input" /\ data.array

C2_Listed == <<
  <<"SMOKE", "smoke">>, <<"DRINK", "drink">>, <<"BMI", "bmi">>,
  <<"th:sakha", "branch">>,
  <<"Triglyceride 30-150  mg%", "triglyceride">>,
  <<"Triglyceride 30-150 mg%", "triglyceride">>,
  <<"HDL  >35 mg/dl", "hdl">> >>

C2_Canonical(key) ==
  IF \E i \in 1..Len(C2_Listed) : C2_Listed[i][1] = key
  THEN C2_Listed[CHOOSE i \in 1..Len(C2_Listed) : C2_Listed[i][1] = key][2]
  ELSE key

C3_Claimed(v) ==
  IF v = Null \/ v = Undefined \/ v = Str(<<>>) THEN FALSE
  ELSE IF v.t = "boolean" THEN v.b
  ELSE IF v = Str(Checkmark) THEN TRUE
  ELSE IF startsWith(v.s, ThaiNegation) THEN FALSE
  ELSE IF toLowerCase(v.s) \in falsy THEN FALSE
  ELSE TRUE

\* the same with rules 4 to 6 read on the string without its surrounding
\* white space, a string of white space alone giving false
C3_Trimmed(v) ==
  IF v = Null \/ v = Undefined \/ v = Str(<<>>) THEN FALSE
  ELSE IF v.t = "boolean" THEN v.b
  ELSE IF v = Str(Checkmark) THEN TRUE
  ELSE IF startsWith(trim(v.s), ThaiNegation) THEN FALSE
  ELSE IF toLowerCase(trim(v.s)) \in falsy THEN FALSE
  ELSE IF trim(v.s) = <<>> THEN FALSE
  ELSE TRUE

\* C3 as stated: smoke and drink come out as exactly true or false, decided by
\* the six rules applied to the raw value (no trimming).
C3_AsStated ==
  Normalized =>
    \A i \in 1..Len(data.rows) : \A k \in 1..Len(data.rows[i]) :
      LET cell == data.rows[i][k]
          field == englishKey(cell.key)
      IN (field \in FlagFields /\ cell.value.t # "number" /\ lastFor(data.rows[i], k))
           => valueOf(normalized[i], field) = Bool(C3_Claimed(cell.value))

\* C3 as amended: smoke and drink come out as exactly true or false, decided by
\* the six rules with rules 4 to 6 applied to the value without its surrounding
\* white space; a string of white space alone gives false.
C3_FlagCoercion ==
  Normalized =>
    \A i \in 1..Len(data.rows) : \A k \in 1..Len(data.rows[i]) :
      LET cell == data.rows[i][k]
          field == englishKey(cell.key)
          out == valueOf(normalized[i], field)
      IN (field \in FlagFields /\ cell.value.t # "number" /\ lastFor(data.rows[i], k))
           => /\ out \in {Bool(TRUE), Bool(FALSE)}
              /\ out = Bool(C3_Trimmed(cell.value))

C3_Witness ==
  /\ npc = "normalized"
  /\ data = Array(<< <<Cell("SMOKE", Str(<<" ">> \o ThaiNoSmoke))>> >>)
  /\ normalized = << <<Cell("smoke", Bool(FALSE))>> >>

\* C4: under every field other than smoke and drink the checkmark glyph comes
\* out as boolean true and every other value comes out as it went in (a
\* numeric string stays a string).
C4_OtherFields ==
  Normalized =>
    \A i \in 1..Len(data.rows) : \A k \in 1..Len(data.rows[i]) :
      LET cell == data.rows[i][k]
          field == C2_Canonical(cell.key)
      IN (field \notin FlagFields /\ lastFor(data.rows[i], k))
           => valueOf(normalized[i], field)
                = IF cell.value = Str(Checkmark) THEN Bool(TRUE) ELSE cell.value

C4_Witness ==
  /\ npc = "normalized"
  /\ data = Array(<< <<Cell("Triglyceride 30-150  mg%", Str(<<"1","2","0">>)),
                       Cell("Remark", Str(Checkmark))>> >>)
  /\ normalized = << <<Cell("triglyceride", Str(<<"1","2","0">>)),
                       Cell("Remark", Bool(TRUE))>> >>

\* C5: normalizing the normalized rows again changes nothing.
C5_Idempotent ==
  npc = "renormalized" => renormalized = normalized

C5_Witness ==
  /\ npc = "renormalized"
  /\ data = Array(<< <<Cell("smoke", Str(<<"n","o">>)), Cell("SMOKE", Str(Checkmark))>> >>)
  /\ normalized = << <<Cell("smoke", Bool(TRUE))>> >>
  /\ renormalized = normalized

-----------------------------------------------------------------------------
(* The pages as a state machine: the collections are loaded, a page renders *)

EmployeeIds == {"E1", "E2"}
Branches == {"A", "B", ""}     \* "" is a record without a branch

Records == [employee_id : EmployeeIds, branch : Branches, drink : BOOLEAN]

NormIdle ==
  /\ data = NotAnArray
  /\ normalized = <<>>
  /\ renormalized = <<>>
  /\ npc = "idle"

CohortInit ==
  /\ data2024 \in SeqsUpTo(Records, MaxRecords)
  /\ data2025 \in SeqsUpTo(Records, MaxRecords - Len(data2024))
  /\ view = NoView
  /\ cpc = "loaded"
  /\ year = "2024"
  /\ NormIdle
  /\ IoIdle

\* Drinking (and Smoking): the values derived at a render
RenderDrinking ==
  /\ cpc = "loaded"
  /\ view' = [page |-> "drinking",
              drinkers2024 |-> drinkers(data2024),
              drinkers2025 |-> drinkers(data2025),
              drinkRate2024 |-> drinkRate(data2024),
              drinkRate2025 |-> drinkRate(data2025),
              delta |-> ratePointDelta(data2024, data2025),
              trend |-> TrendChip(ratePointDelta(data2024, data2025), TRUE),
              newDrinkers |-> newDrinkers(data2024, data2025),
              quitters |-> quitters(data2024, data2025),
              branches |-> branches(data2024, data2025)]
  /\ cpc' = "drinking"
  /\ UNCHANGED <<data2024, data2025, year, normVars, ioVars>>

\* Overview: the values derived at a render
RenderOverview ==
  /\ cpc = "loaded"
  /\ view' = [page |-> "overview",
              drinkRate2024 |-> drinkRate(data2024),
              drinkRate2025 |-> drinkRate(data2025),
              branchData |-> branchData(data2024, data2025)]
  /\ cpc' = "overview"
  /\ UNCHANGED <<data2024, data2025, year, normVars, ioVars>>

CohortNext == RenderDrinking \/ RenderOverview

SpecCohort == CohortInit /\ [][CohortNext]_vars

-----------------------------------------------------------------------------
(* Properties of the cohort computations *)

\* the indices of coll whose record satisfies ...
drinkersAt(coll) == {i \in 1..Len(coll) : coll[i].drink}
inBranch(coll, b) == {i \in 1..Len(coll) : coll[i].branch = b}

\* r is n / t x 100, and 0 when t = 0; it lies in 0..100
C6_IsRate(r, n, t) ==
  /\ r.den > 0
  /\ IF t > 0 THEN r.num * t = 100 * n * r.den ELSE r = Zero
  /\ 0 <= r.num
  /\ r.num <= 100 * r.den

\* C6: every rate a page shows is count / total x 100, exactly 0 for an empty
\* collection (never NaN), and lies between 0 and 100.
C6_Rate ==
  /\ view.page \in {"drinking", "overview"} =>
       /\ C6_IsRate(view.drinkRate2024, Cardinality(drinkersAt(data2024)), Len(data2024))
       /\ C6_IsRate(view.drinkRate2025, Cardinality(drinkersAt(data2025)), Len(data2025))
  /\ view.page = "drinking" =>
       \A i \in 1..Len(view.branches) :
         LET e == view.branches[i]
         IN /\ C6_IsRate(e.rate2024,
                         Cardinality(drinkersAt(data2024) \cap inBranch(data2024, e.name)),
                         Cardinality(inBranch(data2024, e.name)))
            /\ C6_IsRate(e.rate2025,
                         Cardinality(drinkersAt(data2025) \cap inBranch(data2025, e.name)),
                         Cardinality(inBranch(data2025, e.name)))

C6_Witness ==
  /\ view.page = "drinking"
  /\ data2024 = <<>>
  /\ view.drinkRate2024 = Zero
  /\ Len(data2025) = 3
  /\ view.drinkRate2025 = [num |-> 100, den |-> 3]

\* C7: the delta a page shows is rate(after) - rate(before) with its sign (up
\* when the rate rose, down when it fell), and exchanging the two collections
\* negates it, empty collections included.
C7_SignedDelta ==
  view.page = "drinking" =>
    LET b == view.drinkRate2024
        a == view.drinkRate2025
        d == view.delta
        swapped == ratePointDelta(data2025, data2024)
    IN /\ d.den > 0
       /\ d.num * a.den * b.den = (a.num * b.den - b.num * a.den) * d.den
       /\ d.num > 0 <=> Less(b, a)
       /\ d.num < 0 <=> Less(a, b)
       /\ swapped.den = d.den /\ swapped.num = -d.num
       /\ view.trend.icon = "up" <=> Less(b, a)
       /\ view.trend.icon = "down" <=> Less(a, b)

C7_Witness ==
  /\ view.page = "drinking"
  /\ Len(data2024) = 1
  /\ Len(data2025) = 2
  /\ view.delta = [num |-> -50, den |-> 1]
  /\ view.trend.icon = "down"

\* the branches of either collection, "" (no branch) apart
C8_BranchSet ==
  ({data2024[i].branch : i \in 1..Len(data2024)}
     \cup {data2025[i].branch : i \in 1..Len(data2025)}) \ {""}

\* C8: the breakdown has exactly one entry per distinct non-empty branch of
\* either collection; each entry's totals, counts and rates are those of its
\* branch in each year, 0 and 0% in a year where the branch does not occur.
C8_Breakdown ==
  /\ view.page = "drinking" =>
       /\ Len(view.branches) = Cardinality(C8_BranchSet)
       /\ {view.branches[i].name : i \in 1..Len(view.branches)} = C8_BranchSet
       /\ \A i \in 1..Len(view.branches) :
            LET e == view.branches[i]
                in24 == inBranch(data2024, e.name)
                in25 == inBranch(data2025, e.name)
            IN /\ e.total2024 = Cardinality(in24)
               /\ e.total2025 = Cardinality(in25)
               /\ e.drinkers2024 = Cardinality(in24 \cap drinkersAt(data2024))
               /\ e.drinkers2025 = Cardinality(in25 \cap drinkersAt(data2025))
               /\ C6_IsRate(e.rate2024, e.drinkers2024, e.total2024)
               /\ C6_IsRate(e.rate2025, e.drinkers2025, e.total2025)
               /\ in24 = {} => e.total2024 = 0 /\ e.rate2024 = Zero
               /\ in25 = {} => e.total2025 = 0 /\ e.rate2025 = Zero
  /\ view.page = "overview" =>
       /\ Len(view.branchData) = Cardinality(C8_BranchSet)
       /\ {view.branchData[i].name : i \in 1..Len(view.branchData)} = C8_BranchSet
       /\ \A i \in 1..Len(view.branchData) :
            LET e == view.branchData[i]
            IN /\ e.count2024 = Cardinality(inBranch(data2024, e.name))
               /\ e.count2025 = Cardinality(inBranch(data2025, e.name))

C8_Witness ==
  /\ view.page = "drinking"
  /\ Len(data2024) = 1
  /\ data2024[1].branch = "A"
  /\ \A i \in 1..Len(data2025) : data2025[i].branch = "B"
  /\ \E i \in 1..Len(view.branches) :
       /\ view.branches[i].name = "B"
       /\ view.branches[i].total2024 = 0
       /\ view.branches[i].rate2024 = Zero
       /\ view.branches[i].total2025 = 2
       /\ view.branches[i].rate2025 = [num |-> 50, den |-> 1]

\* where a branch is first met going through data2024, then data2025
C9_FirstSeen(b) ==
  LET all == branchOf(data2024 \o data2025)
  IN CHOOSE i \in 1..Len(all) : all[i] = b /\ \A j \in 1..(i - 1) : all[j] # b

\* the after-year rate of an Overview row (it carries counts only)
C9_AfterRate(e) == rate(e.drink2025, e.count2025)

\* C9 as stated: every branch breakdown is ordered descending by after-year
\* rate, equal rates in first-encounter order.
C9_AsStated ==
  /\ view.page = "drinking" =>
       \A i, j \in 1..Len(view.branches) : i < j =>
         LET x == view.branches[i]
             y == view.branches[j]
         IN /\ ~Less(x.rate2025, y.rate2025)
            /\ x.rate2025 = y.rate2025 => C9_FirstSeen(x.name) < C9_FirstSeen(y.name)
  /\ view.page = "overview" =>
       \A i, j \in 1..Len(view.branchData) : i < j =>
         LET x == view.branchData[i]
             y == view.branchData[j]
         IN /\ ~Less(C9_AfterRate(x), C9_AfterRate(y))
            /\ C9_AfterRate(x) = C9_AfterRate(y)
                 => C9_FirstSeen(x.name) < C9_FirstSeen(y.name)

\* C9 as amended: the Drinking (Smoking) breakdown is ordered descending by
\* after-year rate and the Overview breakdown descending by the branch's head
\* count over both years; entries with equal sort key are in first-encounter
\* order.
C9_Ordering ==
  /\ view.page = "drinking" =>
       \A i, j \in 1..Len(view.branches) : i < j =>
         LET x == view.branches[i]
             y == view.branches[j]
         IN /\ ~Less(x.rate2025, y.rate2025)
            /\ x.rate2025 = y.rate2025 => C9_FirstSeen(x.name) < C9_FirstSeen(y.name)
  /\ view.page = "overview" =>
       \A i, j \in 1..Len(view.branchData) : i < j =>
         LET x == view.branchData[i]
             y == view.branchData[j]
         IN /\ x.count2024 + x.count2025 >= y.count2024 + y.count2025
            /\ x.count2024 + x.count2025 = y.count2024 + y.count2025
                 => C9_FirstSeen(x.name) < C9_FirstSeen(y.name)

C9_Witness ==
  /\ view.page = "drinking"
  /\ Len(data2024) = 1
  /\ data2024[1].branch = "B"
  /\ Len(view.branches) = 2
  /\ view.branches[1].name = "B"
  /\ view.branches[2].name = "A"
  /\ view.branches[1].rate2025 = [num |-> 100, den |-> 1]
  /\ view.branches[2].rate2025 = [num |-> 100, den |-> 1]

\* record j of data2025 is a drinker who has no record in data2024 or whose
\* first record there is a non-drinker
C10_Onset(j) ==
  LET same == {i \in 1..Len(data2024) :
                 data2024[i].employee_id = data2025[j].employee_id}
  IN /\ data2025[j].drink
     /\ \/ same = {}
        \/ ~data2024[CHOOSE i \in same : \A k \in same : i <= k].drink

\* C10: the onset cohort is exactly those records of the after collection, in
\* their order.
C10_OnsetCohort ==
  view.page = "drinking" =>
    LET onset == {j \in 1..Len(data2025) : C10_Onset(j)}
    IN /\ Len(view.newDrinkers) = Cardinality(onset)
       /\ \A k \in 1..Len(view.newDrinkers) :
            view.newDrinkers[k]
              = data2025[CHOOSE j \in onset : Cardinality({i \in onset : i < j}) = k - 1]

C10_Witness ==
  /\ view.page = "drinking"
  /\ Len(data2024) = 2
  /\ data2024[1] = [employee_id |-> "E1", branch |-> "A", drink |-> FALSE]
  /\ data2024[2] = [employee_id |-> "E1", branch |-> "A", drink |-> TRUE]
  /\ data2025 = << [employee_id |-> "E1", branch |-> "A", drink |-> TRUE] >>
  /\ view.newDrinkers = data2025

\* record i of data2024 is a drinker who has a record in data2025 and whose
\* first record there is a non-drinker
C11_Discontinued(i) ==
  LET same == {j \in 1..Len(data2025) :
                 data2025[j].employee_id = data2024[i].employee_id}
  IN /\ data2024[i].drink
     /\ same # {}
     /\ ~data2025[CHOOSE j \in same : \A k \in same : j <= k].drink

\* C11: the discontinued cohort is exactly the records of the before collection
\* that are drinkers and whose matched (first same-id) record of the after
\* collection exists and is a non-drinker, in their order; a drinker whose id
\* does not occur in the after collection is never in it.
C11_DiscontinuedCohort ==
  view.page = "drinking" =>
    LET quit == {i \in 1..Len(data2024) : C11_Discontinued(i)}
    IN /\ Len(view.quitters) = Cardinality(quit)
       /\ \A k \in 1..Len(view.quitters) :
            view.quitters[k]
              = data2024[CHOOSE i \in quit : Cardinality({j \in quit : j < i}) = k - 1]
       /\ \A k \in 1..Len(view.quitters) :
            \E j \in 1..Len(data2025) :
              data2025[j].employee_id = view.quitters[k].employee_id

C11_Witness ==
  /\ view.page = "drinking"
  /\ data2024 = << [employee_id |-> "E1", branch |-> "A", drink |-> TRUE],
                   [employee_id |-> "E2", branch |-> "A", drink |-> TRUE] >>
  /\ data2025 = << [employee_id |-> "E1", branch |-> "A", drink |-> FALSE] >>
  /\ view.quitters = << data2024[1] >>

\* record j of data2025 is a drinker whose first same-id record of data2024
\* exists and is a drinker
C12_StablePositive(j) ==
  LET same == {i \in 1..Len(data2024) :
                 data2024[i].employee_id = data2025[j].employee_id}
  IN /\ data2025[j].drink
     /\ same # {}
     /\ data2024[CHOOSE i \in same : \A k \in same : i <= k].drink

\* C12: the onset cohort and the stable-positive records of the after
\* collection are disjoint, and together they are exactly the drinkers of the
\* after collection.
C12_Partition ==
  view.page = "drinking" =>
    LET stable == {j \in 1..Len(data2025) : C12_StablePositive(j)}
        stableRecords == {data2025[j] : j \in stable}
        onsetRecords == {view.newDrinkers[k] : k \in 1..Len(view.newDrinkers)}
        positive == {view.drinkers2025[k] : k \in 1..Len(view.drinkers2025)}
    IN /\ onsetRecords \cap stableRecords = {}
       /\ onsetRecords \cup stableRecords = positive
       /\ Len(view.newDrinkers) + Cardinality(stable) = Len(view.drinkers2025)
       /\ positive = {data2025[j] : j \in drinkersAt(data2025)}
       /\ Len(view.drinkers2025) = Cardinality(drinkersAt(data2025))

C12_Witness ==
  /\ view.page = "drinking"
  /\ data2024 = << [employee_id |-> "E1", branch |-> "A", drink |-> TRUE] >>
  /\ data2025 = << [employee_id |-> "E1", branch |-> "A", drink |-> TRUE],
                   [employee_id |-> "E2", branch |-> "A", drink |-> TRUE] >>
  /\ view.newDrinkers = << data2025[2] >>
  /\ Len(view.drinkers2025) = 2

-----------------------------------------------------------------------------
(* The same employees in both years: every drinker of the before year still *)
(* drinks, some others have started                                         *)

MaxEmployees == 4   \* employees of the scenario

ScenarioIds == <<"E1", "E2", "E3", "E4", "E5", "E6">>

ScenarioBranch(i) == IF i % 2 = 1 THEN "A" ELSE "B"

\* the before and after collections of n employees; the after collection is
\* in the same or in the opposite order
ScenarioBefore(n, before) ==
  [i \in 1..n |-> [employee_id |-> ScenarioIds[i], branch |-> ScenarioBranch(i),
                   drink |-> i \in before]]

ScenarioAfter(n, after, reversed) ==
  [i \in 1..n |->
     LET e == IF reversed THEN n + 1 - i ELSE i
     IN [employee_id |-> ScenarioIds[e], branch |-> ScenarioBranch(e),
         drink |-> e \in after]]

ScenarioInit ==
  /\ \E n \in 1..MaxEmployees :
       \E after \in SUBSET (1..n) :
         \E before \in SUBSET after :
           \E reversed \in BOOLEAN :
             /\ data2024 = ScenarioBefore(n, before)
             /\ data2025 = ScenarioAfter(n, after, reversed)
  /\ view = NoView
  /\ cpc = "loaded"
  /\ year = "2024"
  /\ NormIdle
  /\ IoIdle

ScenarioNext == RenderDrinking

SpecScenario == ScenarioInit /\ [][ScenarioNext]_vars

idsOf(coll) == {coll[i].employee_id : i \in 1..Len(coll)}

\* the two collections hold the same ids, once each, and every drinker of the
\* before year is a drinker in the after year
C13_Scenario ==
  /\ Len(data2024) > 0
  /\ Len(data2025) = Len(data2024)
  /\ idsOf(data2024) = idsOf(data2025)
  /\ Cardinality(idsOf(data2024)) = Len(data2024)
  /\ \A i \in drinkersAt(data2024) :
       \E j \in drinkersAt(data2025) :
         data2025[j].employee_id = data2024[i].employee_id

\* C13: with N employees in both years, k drinkers before who all still drink
\* and m further employees drinking after, the page shows 100k/N % before,
\* 100(k+m)/N % after, a delta of +100m/N points, an onset cohort of m records
\* and an empty discontinued cohort.
C13_SteadyOnset ==
  (view.page = "drinking" /\ C13_Scenario) =>
    LET N == Len(data2024)
        k == Cardinality(drinkersAt(data2024))
        m == Cardinality(drinkersAt(data2025)) - k
    IN /\ m >= 0
       /\ view.drinkRate2024.den > 0
       /\ view.drinkRate2024.num * N = 100 * k * view.drinkRate2024.den
       /\ view.drinkRate2025.den > 0
       /\ view.drinkRate2025.num * N = 100 * (k + m) * view.drinkRate2025.den
       /\ view.delta.den > 0
       /\ view.delta.num * N = 100 * m * view.delta.den
       /\ view.trend.plus <=> m > 0
       /\ Len(view.newDrinkers) = m
       /\ view.quitters = <<>>

C13_Witness ==
  /\ view.page = "drinking"
  /\ C13_Scenario
  /\ Len(data2024) = 4
  /\ Cardinality(drinkersAt(data2024)) = 1
  /\ Cardinality(drinkersAt(data2025)) = 3
  /\ data2025[1].employee_id = "E4"
  /\ view.drinkRate2024 = [num |-> 25, den |-> 1]
  /\ view.drinkRate2025 = [num |-> 75, den |-> 1]
  /\ view.delta = [num |-> 50, den |-> 1]
  /\ Len(view.newDrinkers) = 2
  /\ view.quitters = <<>>

-----------------------------------------------------------------------------
(* pages/EmployeeOverview (unnamed/part_004) *)

\* An employee record here is [employee_id, fields]: fields maps each critical
\* key to the JavaScript value of that property (Undefined when it is absent).

CRITICAL_FIELDS == <<
  [key |-> "branch", label |-> "th:sakha"],
  [key |-> "smoke", label |-> "Smoke"],
  [key |-> "drink", label |-> "Drink"],
  [key |-> "hearing_test", label |-> "Hearing"],
  [key |-> "vision_occupational", label |-> "Vision"],
  [key |-> "spirometry", label |-> "Spirometry"],
  [key |-> "chest_xray", label |-> "Chest X-Ray"],
  [key |-> "mental_health_result", label |-> "Mental Health"],
  [key |-> "sleep_disorder_result", label |-> "Sleep"],
  [key |-> "overall_result", label |-> "Overall Result"] >>

\* Variant of isMissing: a dash is a value
isMissingDashPresent(value) ==
  value = Null \/ value = Undefined \/ value = Str(<<>>)

\* value === null || value === undefined || value === '' || value === '-'
isMissing(value) ==
  value = Null \/ value = Undefined \/ value = Str(<<>>) \/ value = Str(<<"-">>)

\* CRITICAL_FIELDS.filter(f => isMissing(emp[f.key])).map(f => f.label)
getMissingFields(emp) ==
  LET missing == SelectSeq(CRITICAL_FIELDS, LAMBDA f : isMissing(emp.fields[f.key]))
  IN [i \in 1..Len(missing) |-> missing[i].label]

\* data.map(emp => ({ ...emp, _missingFields: getMissingFields(emp) }))
\*     .filter(emp => emp._missingFields.length > 0)
withMissing(coll) ==
  SelectSeq([i \in 1..Len(coll) |->
               [employee_id |-> coll[i].employee_id, fields |-> coll[i].fields,
                _missingFields |-> getMissingFields(coll[i])]],
            LAMBDA emp : Len(emp._missingFields) > 0)

employeeIdOf(coll) == [i \in 1..Len(coll) |-> coll[i].employee_id]

\* Variant of inBothYears: the before-year records whose id occurs in the after year
inBothYearsPerRecord(d2024, d2025) ==
  Len(SelectSeq(employeeIdOf(d2024),
                LAMBDA id : \E j \in 1..Len(d2025) : d2025[j].employee_id = id))

\* [...ids2024].filter(id => ids2025.has(id)).length, ids2024 and ids2025 Sets
inBothYears(d2024, d2025) ==
  LET ids2024 == fromSet(employeeIdOf(d2024))
      ids2025 == fromSet(employeeIdOf(d2025))
  IN Len(SelectSeq(ids2024, LAMBDA id : \E j \in 1..Len(ids2025) : ids2025[j] = id))

onlyIn2024(d2024, d2025) == Len(d2024) - inBothYears(d2024, d2025)
onlyIn2025(d2024, d2025) == Len(d2025) - inBothYears(d2024, d2025)

-----------------------------------------------------------------------------
(* Employee records *)

CriticalKeys == {CRITICAL_FIELDS[i].key : i \in 1..Len(CRITICAL_FIELDS)}

Complete ==
  [k \in CriticalKeys |->
     IF k \in {"smoke", "drink"} THEN Bool(FALSE) ELSE Str(<<"o", "k">>)]

FieldProbes ==
  {Null, Undefined, Str(<<>>), Str(<<"-">>), Str(<<" ">>), Str(<<"-", "-">>),
   Str(<<" ", "-">>), Str(<<"N", "/", "A">>), Num(0), Bool(TRUE)}

AllDash == [k \in CriticalKeys |-> Str(<<"-">>)]
Unfilled == [k \in CriticalKeys |-> Undefined]
TwoMissing ==
  [Complete EXCEPT !["branch"] = Null, !["overall_result"] = Str(<<>>)]
ThreeMissing ==
  [Complete EXCEPT !["sleep_disorder_result"] = Str(<<"-">>),
                   !["hearing_test"] = Undefined, !["smoke"] = Null]

ProbeFields ==
  {[Complete EXCEPT ![k] = v] : k \in CriticalKeys, v \in FieldProbes}
    \cup {Complete, AllDash, Unfilled, TwoMissing, ThreeMissing}

ProbeEmployees == [employee_id : {"E1"}, fields : ProbeFields]
SampleEmployees == [employee_id : EmployeeIds, fields : {Complete, TwoMissing}]

EmployeesInit ==
  /\ \/ /\ data2024 \in SeqsUpTo(SampleEmployees, MaxRecords)
        /\ data2025 \in SeqsUpTo(SampleEmployees, MaxRecords - Len(data2024))
     \/ \E emp \in ProbeEmployees :
          \/ data2024 = <<emp>> /\ data2025 = <<>>
          \/ data2024 = <<>> /\ data2025 = <<emp>>
  /\ year \in {"2024", "2025"}
  /\ view = NoView
  /\ cpc = "loaded"
  /\ NormIdle
  /\ IoIdle

\* EmployeeOverview: the values derived at a render, data being the selected
\* year's collection (setData(year === '2024' ? data2024 : data2025))
RenderEmployees ==
  /\ cpc = "loaded"
  /\ LET selected == IF year = "2024" THEN data2024 ELSE data2025
     IN view' = [page |-> "employees",
                 data |-> selected,
                 withMissing |-> withMissing(selected),
                 inBothYears |-> inBothYears(data2024, data2025),
                 onlyIn2024 |-> onlyIn2024(data2024, data2025),
                 onlyIn2025 |-> onlyIn2025(data2024, data2025)]
  /\ cpc' = "employees"
  /\ UNCHANGED <<data2024, data2025, year, normVars, ioVars>>

EmployeesNext == RenderEmployees

SpecEmployees == EmployeesInit /\ [][EmployeesNext]_vars

-----------------------------------------------------------------------------
(* Properties of EmployeeOverview *)

\* the records of coll whose id does not occur in other
C14_Absent(coll, other) ==
  {i \in 1..Len(coll) : coll[i].employee_id \notin idsOf(other)}

\* C14 as stated: inBothYears is the number of distinct ids occurring in both
\* collections, onlyBefore is the number of before-records whose id does not
\* occur in after, onlyAfter the number of after-records whose id does not
\* occur in before, and neither is negative.
C14_AsStated ==
  view.page = "employees" =>
    /\ view.inBothYears = Cardinality(idsOf(data2024) \cap idsOf(data2025))
    /\ view.onlyIn2024 = Cardinality(C14_Absent(data2024, data2025))
    /\ view.onlyIn2025 = Cardinality(C14_Absent(data2025, data2024))
    /\ view.onlyIn2024 >= 0
    /\ view.onlyIn2025 >= 0

\* C14 as amended: inBothYears is the number of distinct ids occurring in both
\* collections; onlyBefore = |before| - inBothYears and onlyAfter = |after| -
\* inBothYears are never negative; each is the number of that year's records
\* whose id does not occur in the other year plus the number of its records
\* that repeat a shared id, so it is the former exactly when no shared id
\* is repeated within the year.
C14_Continuity ==
  view.page = "employees" =>
    LET shared == idsOf(data2024) \cap idsOf(data2025)
        repeats(coll) ==
          Cardinality({i \in 1..Len(coll) : coll[i].employee_id \in shared})
            - Cardinality(shared)
    IN /\ view.inBothYears = Cardinality(shared)
       /\ view.onlyIn2024 = Len(data2024) - view.inBothYears
       /\ view.onlyIn2025 = Len(data2025) - view.inBothYears
       /\ view.onlyIn2024 >= 0
       /\ view.onlyIn2025 >= 0
       /\ view.onlyIn2024
            = Cardinality(C14_Absent(data2024, data2025)) + repeats(data2024)
       /\ view.onlyIn2025
            = Cardinality(C14_Absent(data2025, data2024)) + repeats(data2025)
       /\ Cardinality(idsOf(data2024)) = Len(data2024)
            => view.onlyIn2024 = Cardinality(C14_Absent(data2024, data2025))
       /\ Cardinality(idsOf(data2025)) = Len(data2025)
            => view.onlyIn2025 = Cardinality(C14_Absent(data2025, data2024))

C14_Witness ==
  /\ view.page = "employees"
  /\ Len(data2024) = 2
  /\ data2024[1].employee_id = "E1"
  /\ data2024[2].employee_id = "E1"
  /\ Len(data2025) = 1
  /\ data2025[1].employee_id = "E1"
  /\ view.inBothYears = 1
  /\ view.onlyIn2024 = 1
  /\ view.onlyIn2025 = 0

\* the missing sentinel: null, undefined, the empty string, a single dash
C15_Sentinel == {Null, Undefined, Str(<<>>), Str(<<"-">>)}

\* where a label stands in the list of critical fields
C15_Position(label) ==
  CHOOSE i \in 1..Len(CRITICAL_FIELDS) : CRITICAL_FIELDS[i].label = label

\* C15: a record of the selected year is listed as incomplete iff at least one
\* critical field holds the missing sentinel, and its missing list is exactly
\* the labels of the critical fields holding the sentinel, in list order.
C15_MissingData ==
  view.page = "employees" =>
    LET incomplete == {i \in 1..Len(view.data) :
                         \E k \in CriticalKeys : view.data[i].fields[k] \in C15_Sentinel}
    IN /\ Len(view.withMissing) = Cardinality(incomplete)
       /\ \A n \in 1..Len(view.withMissing) :
            LET e == view.withMissing[n]
                i == CHOOSE x \in incomplete : Cardinality({y \in incomplete : y < x}) = n - 1
                listed == e._missingFields
            IN /\ e.employee_id = view.data[i].employee_id
               /\ e.fields = view.data[i].fields
               /\ {listed[x] : x \in 1..Len(listed)}
                    = {CRITICAL_FIELDS[f].label : f \in
                         {g \in 1..Len(CRITICAL_FIELDS) :
                            e.fields[CRITICAL_FIELDS[g].key] \in C15_Sentinel}}
               /\ \A x, y \in 1..Len(listed) :
                    x < y => C15_Position(listed[x]) < C15_Position(listed[y])

C15_Witness ==
  /\ view.page = "employees"
  /\ year = "2025"
  /\ Len(data2025) = 1
  /\ data2025[1].fields = ThreeMissing
  /\ Len(view.withMissing) = 1
  /\ view.withMissing[1]._missingFields = <<"Smoke", "Hearing", "Sleep">>

-----------------------------------------------------------------------------
(* lib/supabase.ts: fetchAll *)

PAGE_SIZE == 1000

MaxTableRows == 2001   \* rows of the table fetchAll reads

StoreErrors == {"timeout"}

\* A row of the table is identified by its place in store order.
TableOf(n) == [i \in 1..n |-> i]

\* supabase.from(tableName).select('*').range(from, to) on a table that does
\* not change: the rows at offsets from..to that exist
range(rows, from, to) ==
  SubSeq(rows, from + 1, IF to + 1 < Len(rows) THEN to + 1 ELSE Len(rows))

\* Variant of failed: an error of the store is not looked at
failedIgnored(resp) == FALSE

\* if (error)
failed(resp) == resp.error # ""

\* Variant of lastPage: a full page is taken for the last one
lastPageInclusive(rows) == Len(rows) <= PAGE_SIZE

\* data.length < PAGE_SIZE
lastPage(rows) == Len(rows) < PAGE_SIZE

FetchAllInit ==
  /\ table \in {TableOf(n) : n \in 0..MaxTableRows}
  /\ page = 0
  /\ results = <<>>
  /\ requests = <<>>
  /\ response = NoResponse
  /\ outcome = Pending
  /\ fpc = "fetching"
  /\ NormIdle
  /\ CohortIdle
  /\ LoadIdle
  /\ UploadIdle
  /\ PageIdle
  /\ YearIdle
  /\ FileIdle

\* what the store answers to the range of the current page: the rows, or an
\* error and no data
Responses ==
  LET from == page * PAGE_SIZE
      to == from + PAGE_SIZE - 1
  IN {[error |-> "", data |-> range(table, from, to)]}
       \cup {[error |-> e, data |-> <<>>] : e \in StoreErrors}

Request ==
  LET from == page * PAGE_SIZE
  IN Append(requests, [from |-> from, to |-> from + PAGE_SIZE - 1])

\* if (error) throw error;
PageError ==
  /\ fpc = "fetching"
  /\ \E resp \in Responses :
       /\ failed(resp)
       /\ response' = resp
       /\ outcome' = [kind |-> "error", rows |-> <<>>, error |-> resp.error]
  /\ requests' = Request
  /\ fpc' = "thrown"
  /\ UNCHANGED <<table, page, results, normVars, cohortVars, loadVars, uploadVars, pageVars,
                 yearVars, fileVars>>

\* if (!data || data.length === 0) break;  return results;
PageEmpty ==
  /\ fpc = "fetching"
  /\ \E resp \in Responses :
       /\ ~failed(resp)
       /\ Len(resp.data) = 0
       /\ response' = resp
  /\ requests' = Request
  /\ outcome' = [kind |-> "rows", rows |-> results, error |-> ""]
  /\ fpc' = "returned"
  /\ UNCHANGED <<table, page, results, normVars, cohortVars, loadVars, uploadVars, pageVars,
                 yearVars, fileVars>>

\* results.push(...data); if (data.length < PAGE_SIZE) break;  return results;
PageLast ==
  /\ fpc = "fetching"
  /\ \E resp \in Responses :
       /\ ~failed(resp)
       /\ Len(resp.data) # 0
       /\ lastPage(resp.data)
       /\ response' = resp
       /\ results' = results \o resp.data
       /\ outcome' = [kind |-> "rows", rows |-> results \o resp.data, error |-> ""]
  /\ requests' = Request
  /\ fpc' = "returned"
  /\ UNCHANGED <<table, page, normVars, cohortVars, loadVars, uploadVars, pageVars,
                 yearVars, fileVars>>

\* results.push(...data); page++;
PageFull ==
  /\ fpc = "fetching"
  /\ \E resp \in Responses :
       /\ ~failed(resp)
       /\ Len(resp.data) # 0
       /\ ~lastPage(resp.data)
       /\ response' = resp
       /\ results' = results \o resp.data
  /\ requests' = Request
  /\ page' = page + 1
  /\ UNCHANGED <<table, outcome, fpc, normVars, cohortVars, loadVars, uploadVars, pageVars,
                 yearVars, fileVars>>

FetchAllNext == PageError \/ PageEmpty \/ PageLast \/ PageFull

SpecFetchAll == FetchAllInit /\ [][FetchAllNext]_vars

-----------------------------------------------------------------------------
(* Properties of fetchAll *)

\* the ranges asked so far are those of pages 0, 1, 2, ... in turn, once each
ConsecutivePages ==
  \A i \in 1..Len(requests) :
    requests[i] = [from |-> (i - 1) * PAGE_SIZE, to |-> i * PAGE_SIZE - 1]

\* C16: with a store that reports no error, fetchAll asks for consecutive
\* pages, never for more than n \div PAGE_SIZE + 1 of them (so it ends), ends at
\* the first page shorter than PAGE_SIZE (an empty one when n is an exact
\* multiple), and returns all n rows of the table once each in store order.
C16_Pagination ==
  LET n == Len(table)
  IN /\ ConsecutivePages
     /\ Len(requests) <= n \div PAGE_SIZE + 1
     /\ fpc = "fetching" =>
          /\ Len(requests) = page
          /\ page * PAGE_SIZE <= n
          /\ results = SubSeq(table, 1, page * PAGE_SIZE)
          /\ ENABLED FetchAllNext
     /\ fpc = "returned" =>
          /\ outcome.kind = "rows"
          /\ outcome.rows = table
          /\ Len(requests) = n \div PAGE_SIZE + 1
          /\ Len(response.data) < PAGE_SIZE
          /\ Len(response.data) = n % PAGE_SIZE

C16_Witness ==
  /\ fpc = "returned"
  /\ Len(table) = 2 * PAGE_SIZE
  /\ Len(requests) = 3
  /\ response.data = <<>>
  /\ outcome.rows = table

\* C17: when the store reports an error for a page, fetchAll throws that
\* error: it returns no rows, the rows of earlier pages included, the failing
\* range is the last one asked, and no range is asked twice.
C17_ErrorPropagates ==
  /\ response.error # "" =>
       /\ fpc = "thrown"
       /\ outcome = [kind |-> "error", rows |-> <<>>, error |-> response.error]
  /\ fpc = "thrown" =>
       /\ response.error \in StoreErrors
       /\ ConsecutivePages
       /\ Len(requests) = page + 1
       /\ ~ENABLED FetchAllNext

C17_Witness ==
  /\ fpc = "thrown"
  /\ page = 1
  /\ Len(results) = PAGE_SIZE
  /\ Len(requests) = 2
  /\ outcome = [kind |-> "error", rows |-> <<>>, error |-> "timeout"]

-----------------------------------------------------------------------------
(* The pages' fetchData (Drinking, Smoking, Overview, OccupationalMedicine,  *)
(* EmployeeOverview): both year tables are queried on mount                  *)

RowLimit == 5000           \* .limit(5000)

MaxDatasetRows == 5001     \* rows of a year table

\* row i of a year table, as the store holds it
DatasetRow(i) ==
  << Cell("employee_id", Str(digitsOf(i))),
     Cell("DRINK", Str(IF i % 2 = 0 THEN Checkmark ELSE <<>>)) >>

DatasetOf(n) == [i \in 1..n |-> DatasetRow(i)]

DatasetSizes == {0, 2, RowLimit, MaxDatasetRows}

\* error.message of the errors the store may report (one has no message)
StoreMessages == {<<"t","i","m","e","o","u","t">>, <<>>}

\* 'Failed to fetch data'
FailedToFetch ==
  <<"F","a","i","l","e","d"," ","t","o"," ","f","e","t","c","h"," ","d","a","t","a">>

\* .limit(count): the first count rows
limit(rows, count) ==
  SubSeq(rows, 1, IF count < Len(rows) THEN count ELSE Len(rows))

\* what the store may answer to select('*').limit(RowLimit) on rows
Answers(rows) ==
  {[status |-> "settled", failed |-> FALSE, message |-> <<>>,
    data |-> limit(rows, RowLimit)]}
    \cup {[status |-> "settled", failed |-> TRUE, message |-> m, data |-> <<>>] :
            m \in StoreMessages}

LoadInit ==
  /\ health_2024 \in {DatasetOf(n) : n \in DatasetSizes}
  /\ health_2025 \in {DatasetOf(n) : n \in DatasetSizes}
  /\ isSupabaseConfigured \in BOOLEAN
  /\ loading = TRUE
  /\ error = Null
  /\ data2024 = <<>>
  /\ data2025 = <<>>
  /\ r2024 = Unsettled
  /\ r2025 = Unsettled
  /\ lpc = "mounted"
  /\ view = NoView
  /\ cpc = "idle"
  /\ year = "2024"
  /\ NormIdle
  /\ FetchIdle
  /\ UploadIdle
  /\ PageIdle
  /\ YearIdle
  /\ FileIdle

\* if (!isSupabaseConfigured) { setLoading(false); return; }
FetchDataUnconfigured ==
  /\ lpc = "mounted"
  /\ ~isSupabaseConfigured
  /\ loading' = FALSE
  /\ lpc' = "done"
  /\ UNCHANGED <<health_2024, health_2025, isSupabaseConfigured, error, r2024, r2025,
                 normVars, cohortVars, fetchVars, uploadVars, pageVars,
                 yearVars, fileVars>>

\* setLoading(true); await Promise.all([...]): both queries are sent
FetchDataStart ==
  /\ lpc = "mounted"
  /\ isSupabaseConfigured
  /\ loading' = TRUE
  /\ lpc' = "awaiting"
  /\ UNCHANGED <<health_2024, health_2025, isSupabaseConfigured, error, r2024, r2025,
                 normVars, cohortVars, fetchVars, uploadVars, pageVars,
                 yearVars, fileVars>>

\* the store answers the health_2024 query
Settle2024 ==
  /\ lpc = "awaiting"
  /\ r2024 = Unsettled
  /\ r2024' \in Answers(health_2024)
  /\ UNCHANGED <<health_2024, health_2025, isSupabaseConfigured, loading, error, r2025,
                 lpc, normVars, cohortVars, fetchVars, uploadVars, pageVars,
                 yearVars, fileVars>>

\* the store answers the health_2025 query
Settle2025 ==
  /\ lpc = "awaiting"
  /\ r2025 = Unsettled
  /\ r2025' \in Answers(health_2025)
  /\ UNCHANGED <<health_2024, health_2025, isSupabaseConfigured, loading, error, r2024,
                 lpc, normVars, cohortVars, fetchVars, uploadVars, pageVars,
                 yearVars, fileVars>>

\* Promise.all has resolved and one of the answers carries an error:
\* if (r2024.error) throw r2024.error; if (r2025.error) throw r2025.error;
\* catch: setError(err.message || 'Failed to fetch data'); finally: setLoading(false)
FetchDataRejected ==
  /\ lpc = "awaiting"
  /\ r2024 # Unsettled
  /\ r2025 # Unsettled
  /\ r2024.failed \/ r2025.failed
  /\ LET err == IF r2024.failed THEN r2024 ELSE r2025
     IN error' = Str(IF err.message # <<>> THEN err.message ELSE FailedToFetch)
  /\ loading' = FALSE
  /\ lpc' = "done"
  /\ UNCHANGED <<health_2024, health_2025, isSupabaseConfigured, r2024, r2025,
                 data2024, data2025, view, cpc, year, normVars, fetchVars, uploadVars, pageVars,
                 yearVars, fileVars>>

\* Promise.all has resolved without an error:
\* setData2024(normalizeData(r2024.data || [])); setData2025(...);
\* finally: setLoading(false)
FetchDataLoaded ==
  /\ lpc = "awaiting"
  /\ r2024 # Unsettled
  /\ r2025 # Unsettled
  /\ ~r2024.failed
  /\ ~r2025.failed
  /\ data2024' = normalizeData(Array(r2024.data))
  /\ data2025' = normalizeData(Array(r2025.data))
  /\ loading' = FALSE
  /\ lpc' = "done"
  /\ UNCHANGED <<health_2024, health_2025, isSupabaseConfigured, error, r2024, r2025,
                 view, cpc, year, normVars, fetchVars, uploadVars, pageVars,
                 yearVars, fileVars>>

LoadNext ==
  \/ FetchDataUnconfigured
  \/ FetchDataStart
  \/ Settle2024
  \/ Settle2025
  \/ FetchDataRejected
  \/ FetchDataLoaded

SpecLoad == LoadInit /\ [][LoadNext]_vars

-----------------------------------------------------------------------------
(* Properties of the pages' fetchData *)

\* C18 as stated: once a year table is loaded, the collection handed to the
\* page holds every row of that table, whatever its size.
C18_AsStated ==
  (lpc = "done" /\ isSupabaseConfigured /\ error = Null) =>
    /\ Len(data2024) = Len(health_2024)
    /\ Len(data2025) = Len(health_2025)
    /\ data2024 = normalizeData(Array(health_2024))
    /\ data2025 = normalizeData(Array(health_2025))

\* what the pages do load: the first RowLimit rows of each table
C18_Capped ==
  (lpc = "done" /\ isSupabaseConfigured /\ error = Null) =>
    /\ data2024 = normalizeData(Array(SubSeq(health_2024, 1, Len(data2024))))
    /\ data2025 = normalizeData(Array(SubSeq(health_2025, 1, Len(data2025))))
    /\ Len(data2024) = IF Len(health_2024) > RowLimit THEN RowLimit ELSE Len(health_2024)
    /\ Len(data2025) = IF Len(health_2025) > RowLimit THEN RowLimit ELSE Len(health_2025)

\* C19 as stated: when the query of one year fails and the query of the other
\* year succeeds, the failure is reported and the collection of the year that
\* succeeded is loaded.
C19_AsStated ==
  lpc = "done" =>
    /\ (r2024.failed /\ r2025.status = "settled" /\ ~r2025.failed) =>
         /\ error # Null
         /\ data2025 = normalizeData(Array(r2025.data))
    /\ (r2025.failed /\ r2024.status = "settled" /\ ~r2024.failed) =>
         /\ error # Null
         /\ data2024 = normalizeData(Array(r2024.data))

\* what the pages do: one failed query leaves both collections as they were
C19_AllOrNothing ==
  (lpc = "done" /\ (r2024.failed \/ r2025.failed)) =>
    /\ error # Null
    /\ data2024 = <<>>
    /\ data2025 = <<>>

-----------------------------------------------------------------------------
(* App (unnamed/part_002): the years of the top bar and their stored copy *)

\* A year label is a string value: the sequence of its code units.

\* ['2024', '2025']
INITIAL_YEARS == << <<"2", "0", "2", "4">>, <<"2", "0", "2", "5">> >>

\* the units that occur in a label typed by the user, in code-unit order
CodeUnits == <<" ", "-", "0", "1", "2", "3", "4", "5", "6", "7", "8", "9", "a">>

codeOf(c) == CHOOSE k \in 1..Len(CodeUnits) : CodeUnits[k] = c

\* s < t for strings: the order of Array.prototype.sort without a comparator
stringBefore(s, t) ==
  \/ Len(s) < Len(t) /\ SubSeq(t, 1, Len(s)) = s
  \/ \E k \in 1..Len(s) :
       /\ k <= Len(t)
       /\ SubSeq(s, 1, k - 1) = SubSeq(t, 1, k - 1)
       /\ codeOf(s[k]) < codeOf(t[k])

\* JSON.stringify of an array of strings without quotes or backslashes
RECURSIVE joined(_)
joined(labels) ==
  IF labels = <<>> THEN <<>>
  ELSE <<"\"">> \o Head(labels) \o <<"\"">>
         \o (IF Len(labels) > 1 THEN <<",">> ELSE <<>>) \o joined(Tail(labels))

stringify(labels) == <<"[">> \o joined(labels) \o <<"]">>

\* JSON.parse of such a text: the strings between the quotes
RECURSIVE strings(_, _, _)
strings(text, inside, current) ==
  IF text = <<>> THEN <<>>
  ELSE IF Head(text) = "\""
    THEN IF inside THEN <<current>> \o strings(Tail(text), FALSE, <<>>)
         ELSE strings(Tail(text), TRUE, <<>>)
  ELSE IF inside THEN strings(Tail(text), TRUE, Append(current, Head(text)))
  ELSE strings(Tail(text), FALSE, <<>>)

parse(text) == strings(text, FALSE, <<>>)

\* getStoredYears: raw is localStorage.getItem(YEARS_KEY)
getStoredYears(raw) ==
  IF raw.t = "string" /\ raw.s # <<>> THEN parse(raw.s) ELSE INITIAL_YEARS

\* years.includes(year)
includesYear(labels, label) == \E k \in 1..Len(labels) : labels[k] = label

\* Variant of addYear: the new year is put at the end
addYearAppending(label, labels) ==
  IF includesYear(labels, label) THEN labels ELSE Append(labels, label)

\* addYear(year, years): years itself, or [...years, year].sort()
addYear(label, labels) ==
  IF includesYear(labels, label) THEN labels
  ELSE LET updated == Append(labels, label)
       IN sort(updated, [a \in 1..Len(updated) |->
                           [b \in 1..Len(updated) |->
                              stringBefore(updated[b], updated[a])]])

-----------------------------------------------------------------------------
(* pages/Upload.tsx: handleUpload, and the store it writes to *)

BATCH == 100

MaxParsedRows == 201   \* rows of an uploaded file
MaxUploads == 2        \* times the Upload button is pressed for one file

\* CREATE TABLE health_2024 (employee_id TEXT PRIMARY KEY, ...), and
\* CREATE TABLE health_<year> (LIKE health_2024 INCLUDING ALL)
PrimaryKey == "employee_id"

\* Variant of onConflict: the rows are matched on another column
onConflictFullName == "full_name"

\* .upsert(batch, { onConflict: 'employee_id' })
onConflict == "employee_id"

\* the place in rows of the row whose column key holds value, 0 if none
rowWith(rows, key, value) ==
  LET hits == {k \in 1..Len(rows) : rows[k][key] = value}
  IN IF hits = {} THEN 0 ELSE CHOOSE k \in hits : TRUE

\* INSERT ... ON CONFLICT (key) DO UPDATE for a batch without a repeated key:
\* a row of the table whose key is in the batch takes the fields of that row
\* of the batch, the other rows of the batch are added
mergeRows(rows, batch, key) ==
  LET replaced == [k \in 1..Len(rows) |->
                     LET hit == rowWith(batch, key, rows[k][key])
                     IN IF hit = 0 THEN rows[k] ELSE batch[hit]]
      added == SelectSeq(batch, LAMBDA row : rowWith(rows, key, row[key]) = 0)
  IN replaced \o added

\* The store's upsert of one batch, one statement: the error code and the rows
\* of the table afterwards.
\*   42P10  the conflict column carries no unique constraint
\*   23502  a row has no value for the primary key
\*   21000  two rows of the batch have the same conflict key
upsert(rows, batch, key) ==
  IF key # PrimaryKey THEN [error |-> "42P10", rows |-> rows]
  ELSE IF \E k \in 1..Len(batch) : batch[k][PrimaryKey] \in {Null, Undefined}
    THEN [error |-> "23502", rows |-> rows]
  ELSE IF \E k, l \in 1..Len(batch) : k # l /\ batch[k][key] = batch[l][key]
    THEN [error |-> "21000", rows |-> rows]
  ELSE [error |-> "", rows |-> mergeRows(rows, batch, key)]

\* errors of the store that do not depend on the rows: the request does not
\* get through, the table does not exist
StoreFailures == {"network", "42P01"}

\* Variant of slice: the end index is included
sliceInclusive(rows, from, to) ==
  SubSeq(rows, from + 1, IF to + 1 < Len(rows) THEN to + 1 ELSE Len(rows))

\* parsedRows.slice(i, i + BATCH)
slice(rows, from, to) ==
  SubSeq(rows, from + 1, IF to < Len(rows) THEN to ELSE Len(rows))

\* /^\d{4}$/.test(s)
fourDigits(s) == Len(s) = 4 /\ isDigits(s)

Text(message) == Str(<<message>>)

-----------------------------------------------------------------------------
(* Files and tables of an upload *)

UploadRow(id, name) == [employee_id |-> Str(digitsOf(id)), full_name |-> name]

\* n rows with the ids 1..n
FileOf(n, name) == [k \in 1..n |-> UploadRow(k, name)]

ParsedFiles ==
  {FileOf(n, "new") : n \in {0, 1, 2, BATCH, BATCH + 1, 2 * BATCH, MaxParsedRows}}
    \cup {\* an id of the first batch again in the second batch
          Append(FileOf(BATCH, "new"), UploadRow(1, "newer")),
          \* the same id twice in one batch
          <<UploadRow(1, "new"), UploadRow(2, "new"), UploadRow(1, "newer")>>,
          \* a row without employee_id
          <<UploadRow(1, "new"), [employee_id |-> Undefined, full_name |-> "new"]>>}

Datasets ==
  {<<>>, FileOf(3, "old"), <<UploadRow(2, "old"), UploadRow(500, "old")>>}

\* onChange strips what is not a digit and cuts at four
UploadYears == {<<>>, <<"2", "6">>, <<"2", "0", "2", "6">>}

UploadInit ==
  /\ dataset \in Datasets
  /\ parsedRows \in ParsedFiles
  /\ uploadYear \in UploadYears
  /\ uploading = FALSE
  /\ result = NoResult
  /\ uploadError = Null
  /\ batchStart = 0
  /\ successCount = 0
  /\ errorCount = 0
  /\ replies = <<>>
  /\ stored = <<>>
  /\ upc = "ready"
  /\ isSupabaseConfigured = TRUE
  /\ health_2024 = <<>>
  /\ health_2025 = <<>>
  /\ loading = FALSE
  /\ error = Null
  /\ r2024 = Unsettled
  /\ r2025 = Unsettled
  /\ lpc = "idle"
  /\ NormIdle
  /\ CohortIdle
  /\ FetchIdle
  /\ PageIdle
  /\ FileIdle
  /\ sent = <<>>
  /\ years = INITIAL_YEARS
  /\ localStorage = Str(stringify(INITIAL_YEARS))

\* the button is disabled while uploading and when Supabase is not configured
Pressed ==
  /\ upc = "ready"
  /\ ~uploading
  /\ isSupabaseConfigured
  /\ Len(stored) < MaxUploads

\* handleUpload returns at one of its three checks
HandleUploadRefused ==
  /\ Pressed
  /\ \/ /\ Len(parsedRows) = 0 \/ trim(uploadYear) = <<>>
        /\ uploadError' = Text("Please select a year and upload a CSV file first.")
     \/ /\ ~(Len(parsedRows) = 0 \/ trim(uploadYear) = <<>>)
        /\ ~fourDigits(trim(uploadYear))
        /\ uploadError' = Text("Year must be a 4-digit number (e.g. 2026).")
     \/ /\ ~(Len(parsedRows) = 0 \/ trim(uploadYear) = <<>>)
        /\ fourDigits(trim(uploadYear))
        /\ ~isSupabaseConfigured
        /\ uploadError' = Text("Supabase is not configured. Add credentials to your .env file.")
  /\ UNCHANGED <<dataset, parsedRows, uploadYear, uploading, result, batchStart, successCount,
                 errorCount, replies, stored, upc, sent, normVars, cohortVars, fetchVars,
                 loadVars, pageVars,
                 yearVars, fileVars>>

\* setUploading(true); setResult(null); setError(null); the loop is entered
\* and the first batch is sent
HandleUploadStart ==
  /\ Pressed
  /\ Len(parsedRows) # 0
  /\ fourDigits(trim(uploadYear))
  /\ uploading' = TRUE
  /\ result' = NoResult
  /\ uploadError' = Null
  /\ batchStart' = 0
  /\ successCount' = 0
  /\ errorCount' = 0
  /\ upc' = "uploading"
  /\ sent' = <<>>
  /\ UNCHANGED <<dataset, parsedRows, uploadYear, replies, stored, normVars, cohortVars,
                 fetchVars, loadVars, pageVars,
                 yearVars, fileVars>>

\* after the answer to a batch: the next batch is sent, or the loop is over:
\* setResult({ success, errors }); onYearAdded?.(year.trim()), which is App's
\* handleYearAdded, and the effect that stores years; finally setUploading(false)
Continue(rows, success, errors) ==
  /\ successCount' = success
  /\ errorCount' = errors
  /\ batchStart' = batchStart + BATCH
  /\ IF batchStart + BATCH < Len(parsedRows)
       THEN UNCHANGED <<result, uploading, upc, stored, yearVars>>
       ELSE /\ result' = [set |-> TRUE, success |-> success, errors |-> errors]
            /\ years' = addYear(trim(uploadYear), years)
            /\ localStorage' = Str(stringify(years'))
            /\ uploading' = FALSE
            /\ upc' = "ready"
            /\ stored' = Append(stored, rows)

\* the store answers the upsert of a batch without an error
BatchStored ==
  /\ upc = "uploading"
  /\ LET batch == slice(parsedRows, batchStart, batchStart + BATCH)
         answer == upsert(dataset, batch, onConflict)
     IN /\ answer.error = ""
        /\ dataset' = answer.rows
        /\ replies' = Append(replies, "")
        /\ sent' = Append(sent, batch)
        /\ Continue(answer.rows, successCount + Len(batch), errorCount)
  /\ UNCHANGED <<parsedRows, uploadYear, uploadError, normVars, cohortVars, fetchVars,
                 loadVars, pageVars, fileVars>>

\* the store answers with an error other than 42P01: errorCount += batch.length
BatchFailed ==
  /\ upc = "uploading"
  /\ LET batch == slice(parsedRows, batchStart, batchStart + BATCH)
         answer == upsert(dataset, batch, onConflict)
     IN \E code \in ({answer.error} \cup StoreFailures) \ {"", "42P01"} :
          /\ replies' = Append(replies, code)
          /\ sent' = Append(sent, batch)
          /\ Continue(dataset, successCount, errorCount + Len(batch))
  /\ UNCHANGED <<dataset, parsedRows, uploadYear, uploadError, normVars, cohortVars,
                 fetchVars, loadVars, pageVars, fileVars>>

\* the table does not exist and the store answers the first upsert with
\* 42P01: throw; catch: setError(...); finally setUploading(false)
TableMissing ==
  /\ upc = "uploading"
  /\ batchStart = 0
  /\ replies' = Append(replies, "42P01")
  /\ sent' = Append(sent, slice(parsedRows, batchStart, batchStart + BATCH))
  /\ uploadError' = Text("Table does not exist in Supabase. See the SQL below to create it.")
  /\ uploading' = FALSE
  /\ upc' = "ready"
  /\ stored' = Append(stored, dataset)
  /\ UNCHANGED <<dataset, parsedRows, uploadYear, result, batchStart, successCount, errorCount,
                 normVars, cohortVars, fetchVars, loadVars, pageVars,
                 yearVars, fileVars>>

UploadNext ==
  \/ HandleUploadRefused
  \/ HandleUploadStart
  \/ BatchStored
  \/ BatchFailed
  \/ TableMissing

SpecUpload == UploadInit /\ [][UploadNext]_vars

-----------------------------------------------------------------------------
(* Properties of the upload *)

rowsOf(rows) == {rows[k] : k \in 1..Len(rows)}

\* every batch of the file has an employee_id in every row and none twice
C20_WellFormed ==
  \A b \in 0..(Len(parsedRows) \div BATCH) :
    LET batch == slice(parsedRows, b * BATCH, (b + 1) * BATCH)
    IN /\ \A k \in 1..Len(batch) : batch[k].employee_id \notin {Null, Undefined}
       /\ \A k, l \in 1..Len(batch) :
            k # l => batch[k].employee_id # batch[l].employee_id

\* the store has accepted every batch sent so far
C20_Accepted == \A k \in 1..Len(replies) : replies[k] = ""

\* row k of the file is the last one with its employee_id
C20_Last(k) ==
  \A m \in (k + 1)..Len(parsedRows) :
    parsedRows[m].employee_id # parsedRows[k].employee_id

\* C20: the table never holds two rows with the same employee_id; the store
\* refuses a batch of the file only for a failure of its own or for a batch
\* that lacks an employee_id or repeats one; once every batch of the file has
\* been accepted, each employee_id of the file has the fields of its (last)
\* row in the file, whatever the table held for it; and uploading the same
\* file a second time leaves the table with the rows it had after the first.
C20_Idempotent ==
  /\ \A k, l \in 1..Len(dataset) :
       k # l => dataset[k].employee_id # dataset[l].employee_id
  /\ C20_WellFormed => \A k \in 1..Len(replies) : replies[k] \in {""} \cup StoreFailures
  /\ (Len(stored) >= 1 /\ upc = "ready" /\ C20_Accepted) =>
       /\ result.success = Len(parsedRows)
       /\ \A k \in 1..Len(parsedRows) : C20_Last(k) => parsedRows[k] \in rowsOf(dataset)
  /\ C20_Accepted =>
       \A r \in 2..Len(stored) :
         /\ rowsOf(stored[r]) = rowsOf(stored[r - 1])
         /\ Len(stored[r]) = Len(stored[r - 1])

C20_Witness ==
  /\ Len(stored) = 2
  /\ C20_Accepted
  /\ Len(replies) = 4
  /\ Len(parsedRows) = BATCH + 1
  /\ parsedRows[BATCH + 1] = UploadRow(1, "newer")
  /\ UploadRow(1, "newer") \in rowsOf(dataset)
  /\ UploadRow(1, "new") \notin rowsOf(dataset)
  /\ UploadRow(1, "old") \notin rowsOf(dataset)
  /\ UploadRow(3, "new") \in rowsOf(dataset)
  /\ Len(dataset) = BATCH
  /\ Len(stored[1]) = BATCH

-----------------------------------------------------------------------------
(* Numeric fields of a loaded record *)

\* the canonical names of numeric fields
C21_NumericFields == {"age", "bmi", "cholesterol", "triglyceride", "sgot", "sgpt"}

\* C21 as stated: in every record normalizeData hands to a page, a numeric
\* canonical field holds a number or null, whatever the source cell held.
C21_AsStated ==
  npc \in {"normalized", "renormalized"} =>
    \A r \in 1..Len(normalized) :
      \A c \in 1..Len(normalized[r]) :
        normalized[r][c].key \in C21_NumericFields =>
          \/ normalized[r][c].value.t = "number"
          \/ normalized[r][c].value = Null

\* what the pages do hold: the source value of a numeric cell as it was (the
\* checkmark glyph apart), a string that is no number included
C21_Unparsed ==
  (npc \in {"normalized", "renormalized"} /\ data.array) =>
    \A r \in 1..Len(data.rows) :
      \A c \in 1..Len(data.rows[r]) :
        LET cell == data.rows[r][c]
        IN (englishKey(cell.key) \in C21_NumericFields /\ cell.value # Str(Checkmark)
              /\ \A d \in (c + 1)..Len(data.rows[r]) :
                   englishKey(data.rows[r][d].key) # englishKey(cell.key)) =>
             \E k \in 1..Len(normalized[r]) :
               /\ normalized[r][k].key = englishKey(cell.key)
               /\ normalized[r][k].value = cell.value

-----------------------------------------------------------------------------
(* Cells of a record *)

\* C25 as stated: every record normalizeData returns has as many keys as the
\* record it was made from.
C25_AsStated ==
  Normalized =>
    \A r \in 1..Len(data.rows) : Len(normalized[r]) = Len(data.rows[r])

\* what normalizeData does: one key per canonical name of the record; of the
\* cells that resolve to one name the last one gives the value
C25_LastWins ==
  Normalized =>
    \A r \in 1..Len(data.rows) :
      LET item == data.rows[r]
      IN /\ Len(normalized[r])
              = Cardinality({englishKey(item[c].key) : c \in 1..Len(item)})
         /\ \A c \in 1..Len(item) :
              lastFor(item, c) =>
                valueOf(normalized[r], englishKey(item[c].key))
                  = coerce(englishKey(item[c].key), item[c].value)

-----------------------------------------------------------------------------
(* EmployeeOverview over rows that went through normalizeData *)

\* a normalized row read as a FullReport: emp[key] is undefined for a key the
\* row does not have
asEmployee(obj) ==
  [employee_id |-> IF hasKey(obj, "employee_id") THEN valueOf(obj, "employee_id")
                   ELSE Undefined,
   fields |-> [k \in CriticalKeys |->
                 IF hasKey(obj, k) THEN valueOf(obj, k) ELSE Undefined]]

\* setData2024(normalizeData(r2024.data || [])), the year 2024 being selected
SetEmployees ==
  /\ npc = "normalized"
  /\ cpc = "idle"
  /\ data2024' = [r \in 1..Len(normalized) |-> asEmployee(normalized[r])]
  /\ cpc' = "loaded"
  /\ UNCHANGED <<data2025, view, year, normVars, ioVars>>

NormalizedEmployeesNext == Normalize \/ SetEmployees \/ RenderEmployees

SpecNormalizedEmployees == NormInit /\ [][NormalizedEmployeesNext]_vars

\* the source values the claim takes for "no answer"
C26_Blank == {Str(<<>>), Null, Str(<<"-">>)}

\* row r had a blank cell for the flag and no other cell for it
C26_BlankFlag(r, flag) ==
  /\ \E c \in 1..Len(data.rows[r]) :
       /\ englishKey(data.rows[r][c].key) = flag
       /\ data.rows[r][c].value \in C26_Blank
  /\ \A c \in 1..Len(data.rows[r]) :
       englishKey(data.rows[r][c].key) = flag => data.rows[r][c].value \in C26_Blank

\* record r is listed as incomplete with label among its missing fields
C26_Listed(r, label) ==
  \E n \in 1..Len(view.withMissing) :
    /\ view.withMissing[n].fields = view.data[r].fields
    /\ \E x \in 1..Len(view.withMissing[n]._missingFields) :
         view.withMissing[n]._missingFields[x] = label

\* C26 as stated: a record whose raw SMOKE (DRINK) cell is empty, null or a
\* dash is listed by the missing-data check with Smoke (Drink) missing.
C26_AsStated ==
  view.page = "employees" =>
    \A r \in 1..Len(data.rows) :
      /\ C26_BlankFlag(r, "smoke") => C26_Listed(r, "Smoke")
      /\ C26_BlankFlag(r, "drink") => C26_Listed(r, "Drink")

\* what happens: Smoke (Drink) is listed exactly for the rows without any
\* smoke (drink) cell
C26_OnlyAbsent ==
  view.page = "employees" =>
    \A r \in 1..Len(data.rows) :
      /\ C26_Listed(r, "Smoke")
           <=> \A c \in 1..Len(data.rows[r]) : englishKey(data.rows[r][c].key) # "smoke"
      /\ C26_Listed(r, "Drink")
           <=> \A c \in 1..Len(data.rows[r]) : englishKey(data.rows[r][c].key) # "drink"

-----------------------------------------------------------------------------
(* lib/utils isAbnormal (unnamed/part_003), OccupationalMedicine            *)
(* (unnamed/part_005) and the abnormal counts of Overview                   *)

\* 'ผิดปกติ' and 'ปกติ', one token per code unit
AbnormalTerm == <<"TH_PH", "TH_I", "TH_D", "TH_P", "TH_K", "TH_T", "TH_I">>
NormalMarker == <<"TH_P", "TH_K", "TH_T", "TH_I">>

\* String.prototype.includes
includes(s, sub) ==
  \E k \in 0..(Len(s) - Len(sub)) : SubSeq(s, k + 1, k + Len(sub)) = sub

\* isAbnormal(value), value a string, null or undefined
isAbnormal(value) ==
  IF value.t # "string" \/ value.s = <<>> \/ trim(value.s) = <<>> \/ value.s = <<"-">>
  THEN FALSE
  ELSE IF includes(value.s, AbnormalTerm) THEN TRUE
  ELSE IF value.s = NormalMarker THEN FALSE
  ELSE TRUE

\* String(d[cat.field] ?? '')
fieldText(d, field) ==
  IF d.fields[field] \in {Null, Undefined} THEN Str(<<>>)
  ELSE Str(String(d.fields[field]))

\* CATEGORIES[k].field
CATEGORIES == <<"hearing_test", "vision_occupational", "spirometry",
                "mental_health_result", "sleep_disorder_result">>

\* data.filter(d => isAbnormal(String(d[cat.field] ?? ''))).length
abn(coll, field) ==
  Len(SelectSeq(coll, LAMBDA d : isAbnormal(fieldText(d, field))))

\* summaryData: abn2024, abn2025, rate2024, rate2025 of every category
summaryData(d2024, d2025) ==
  [k \in 1..Len(CATEGORIES) |->
     [field |-> CATEGORIES[k],
      abn2024 |-> abn(d2024, CATEGORIES[k]),
      abn2025 |-> abn(d2025, CATEGORIES[k]),
      rate2024 |-> rate(abn(d2024, CATEGORIES[k]), Len(d2024)),
      rate2025 |-> rate(abn(d2025, CATEGORIES[k]), Len(d2025))]]

\* d.overall_result?.includes('ผิดปกติ'): undefined for null and undefined,
\* a TypeError for a value that is not a string
overallThrows(d) == d.fields["overall_result"].t \in {"boolean", "number"}
overallAbnormal(d) ==
  /\ d.fields["overall_result"].t = "string"
  /\ includes(d.fields["overall_result"].s, AbnormalTerm)

abnormalOverall(coll) == Len(SelectSeq(coll, overallAbnormal))

\* the values a result field is given here
Watchlist == <<"TH_F", "TH_A", "TH_W">>
ResultProbes ==
  {Null, Undefined, Str(<<>>), Str(<<" ">>), Str(<<" ", "\t">>), Str(<<"-">>),
   Str(NormalMarker), Str(AbnormalTerm), Str(Watchlist),
   Str(Watchlist \o AbnormalTerm \o <<" ">>), Str(<<" ">> \o NormalMarker),
   Bool(TRUE), Num(0)}

Healthy ==
  [k \in CriticalKeys |->
     IF k \in {"smoke", "drink"} THEN Bool(FALSE)
     ELSE IF k = "branch" THEN Str(<<"A">>) ELSE Str(NormalMarker)]

ResultRecords ==
  [employee_id : {"E1"},
   fields : {[Healthy EXCEPT ![k] = v] :
               k \in {"overall_result", "hearing_test", "spirometry"},
               v \in ResultProbes}]

ResultsInit ==
  /\ data2024 \in SeqsUpTo(ResultRecords, 1)
  /\ data2025 \in SeqsUpTo(ResultRecords, 1)
  /\ year \in {"2024", "2025"}
  /\ view = NoView
  /\ cpc = "loaded"
  /\ NormIdle
  /\ IoIdle

\* OccupationalMedicine: the summary table of a render
RenderOccupational ==
  /\ cpc = "loaded"
  /\ view' = [page |-> "occupational",
              summaryData |-> summaryData(data2024, data2025)]
  /\ cpc' = "occupational"
  /\ UNCHANGED <<data2024, data2025, year, normVars, ioVars>>

\* Overview: abnormal, abnRate2024 and abnRate2025 of a render
RenderOverviewResults ==
  /\ cpc = "loaded"
  /\ LET selected == IF year = "2024" THEN data2024 ELSE data2025
     IN /\ \A k \in 1..Len(data2024) : ~overallThrows(data2024[k])
        /\ \A k \in 1..Len(data2025) : ~overallThrows(data2025[k])
        /\ view' = [page |-> "overview results",
                    abnormal |-> abnormalOverall(selected),
                    abnRate2024 |-> rate(abnormalOverall(data2024), Len(data2024)),
                    abnRate2025 |-> rate(abnormalOverall(data2025), Len(data2025))]
  /\ cpc' = "overview"
  /\ UNCHANGED <<data2024, data2025, year, normVars, ioVars>>

\* Overview: the filter callback throws, the ErrorBoundary of main.tsx renders
RenderOverviewThrows ==
  /\ cpc = "loaded"
  /\ \/ \E k \in 1..Len(data2024) : overallThrows(data2024[k])
     \/ \E k \in 1..Len(data2025) : overallThrows(data2025[k])
  /\ view' = [page |-> "Runtime Error"]
  /\ cpc' = "overview"
  /\ UNCHANGED <<data2024, data2025, year, normVars, ioVars>>

ResultsNext == RenderOccupational \/ RenderOverviewResults \/ RenderOverviewThrows

SpecResults == ResultsInit /\ [][ResultsNext]_vars

\* the predicate of the claim, on the value of a record's result field
C24_Empty(v) ==
  \/ v \in {Null, Undefined}
  \/ v.t = "string" /\ \A k \in 1..Len(v.s) : v.s[k] \in WhiteSpace
  \/ v = Str(<<"-">>)

C24_HasTerm(v) ==
  /\ v.t = "string"
  /\ \E k \in 1..Len(v.s) :
       /\ k + 6 <= Len(v.s)
       /\ \A x \in 1..7 : v.s[k + x - 1] = AbnormalTerm[x]

C24_Predicate(v) ==
  CASE C24_Empty(v) -> FALSE
    [] C24_HasTerm(v) -> TRUE
    [] v = Str(NormalMarker) -> FALSE
    [] OTHER -> TRUE

C24_Count(coll, field) ==
  Cardinality({k \in 1..Len(coll) : C24_Predicate(coll[k].fields[field])})

\* the counts and rates of OccupationalMedicine follow the predicate
C24_Categories ==
  view.page = "occupational" =>
    \A k \in 1..Len(CATEGORIES) :
      /\ view.summaryData[k].abn2024 = C24_Count(data2024, CATEGORIES[k])
      /\ view.summaryData[k].abn2025 = C24_Count(data2025, CATEGORIES[k])
      /\ view.summaryData[k].rate2024
           = rate(C24_Count(data2024, CATEGORIES[k]), Len(data2024))
      /\ view.summaryData[k].rate2025
           = rate(C24_Count(data2025, CATEGORIES[k]), Len(data2025))

\* C24 as stated: the abnormal predicate is false for a null, undefined,
\* empty, whitespace-only or '-' value, true for a value containing the
\* abnormal term, false for the normal marker and true for every other value,
\* and every abnormal count and rate shown for a result field uses it: those
\* of OccupationalMedicine and those of Overview.
C24_AsStated ==
  /\ C24_Categories
  /\ view.page = "overview results" =>
       /\ view.abnormal
            = C24_Count(IF year = "2024" THEN data2024 ELSE data2025, "overall_result")
       /\ view.abnRate2024 = rate(C24_Count(data2024, "overall_result"), Len(data2024))
       /\ view.abnRate2025 = rate(C24_Count(data2025, "overall_result"), Len(data2025))

-----------------------------------------------------------------------------
(* A page under the application: the year selected in the top bar is the    *)
(* page's year prop, the mount effect (and, in EmployeeOverview, every year *)
(* change) calls fetchData, and nothing cancels a call already in flight    *)

MaxFetches == 3     \* fetchData calls of one page

\* the years of the top bar once 2026 has been added
PageYears == {"2024", "2025", "2026"}

Pages == {"overview", "employees", "drinking"}

\* the one row a year table may hold
YearRow(y) == << Cell("employee_id", Str(<<"E", y>>)), Cell("DRINK", Str(Checkmark)) >>

YearTables(y) == {<<>>, <<YearRow(y)>>}

\* the table health_<y> of the store
healthOf(y) ==
  CASE y = "2024" -> health_2024
    [] y = "2025" -> health_2025
    [] OTHER -> health_2026

\* 'Failed to connect'
FailedToConnect ==
  <<"F","a","i","l","e","d"," ","t","o"," ","c","o","n","n","e","c","t">>

\* year === '2024' ? data2024 : data2025
yearData(y, d2024, d2025) == IF y = "2024" THEN d2024 ELSE d2025

\* number of StrictMode runs of a mount effect: one in a production build,
\* two in a development build
EffectRuns == {1, 2}

PageInit ==
  /\ health_2024 \in YearTables("2024")
  /\ health_2025 \in YearTables("2025")
  /\ health_2026 \in YearTables("2026")
  /\ isSupabaseConfigured \in BOOLEAN
  /\ mounted \in Pages
  /\ year \in PageYears
  /\ loading = TRUE
  /\ error = Null
  /\ data2024 = <<>>
  /\ data2025 = <<>>
  /\ pageData = <<>>
  /\ fetches = <<>>
  /\ lpc = "mounted"
  /\ r2024 = Unsettled
  /\ r2025 = Unsettled
  /\ view = NoView
  /\ cpc = "idle"
  /\ NormIdle
  /\ FetchIdle
  /\ UploadIdle
  /\ YearIdle
  /\ FileIdle

\* the state a call of fetchData leaves when it reaches its await:
\* setLoading(true); setError(null) (Drinking does not reset error)
Started(n) ==
  /\ loading' = TRUE
  /\ error' = IF mounted = "drinking" THEN error ELSE Null
  /\ fetches' = fetches \o [k \in 1..n |-> [year |-> year, status |-> "in flight"]]

\* the effects of the mount, store not configured: setLoading(false); return
MountUnconfigured ==
  /\ lpc = "mounted"
  /\ ~isSupabaseConfigured
  /\ loading' = FALSE
  /\ lpc' = "effects run"
  /\ UNCHANGED <<health_2024, health_2025, health_2026, isSupabaseConfigured, mounted,
                 error, data2024, data2025, pageData, fetches, year, r2024, r2025,
                 view, cpc, normVars, fetchVars, uploadVars,
                 yearVars, fileVars>>

\* the effects of the mount: fetchData is called once, or twice under StrictMode
Mount ==
  /\ lpc = "mounted"
  /\ isSupabaseConfigured
  /\ \E n \in EffectRuns : Started(n)
  /\ lpc' = "effects run"
  /\ UNCHANGED <<health_2024, health_2025, health_2026, isSupabaseConfigured, mounted,
                 data2024, data2025, pageData, year, r2024, r2025,
                 view, cpc, normVars, fetchVars, uploadVars,
                 yearVars, fileVars>>

\* another year is selected in the top bar.  Overview and EmployeeOverview
\* set data to the year's collection; EmployeeOverview calls fetchData again
SelectYear ==
  /\ lpc = "effects run"
  /\ \E y \in PageYears \ {year} :
       /\ year' = y
       /\ pageData' = IF mounted = "drinking" THEN pageData
                      ELSE yearData(y, data2024, data2025)
  /\ IF mounted = "employees"
     THEN IF isSupabaseConfigured
          THEN /\ Len(fetches) < MaxFetches
               /\ loading' = TRUE
               /\ error' = Null
               /\ fetches' = Append(fetches, [year |-> year', status |-> "in flight"])
          ELSE /\ loading' = FALSE
               /\ UNCHANGED <<error, fetches>>
     ELSE UNCHANGED <<loading, error, fetches>>
  /\ UNCHANGED <<health_2024, health_2025, health_2026, isSupabaseConfigured, mounted,
                 data2024, data2025, lpc, r2024, r2025,
                 view, cpc, normVars, fetchVars, uploadVars,
                 yearVars, fileVars>>

\* a call in flight gets both answers without an error: setData2024,
\* setData2025 (and setData), finally setLoading(false); the year effect then
\* sets data for the year selected now
FetchLoaded ==
  /\ \E k \in 1..Len(fetches) :
       /\ fetches[k].status = "in flight"
       /\ fetches' = [fetches EXCEPT ![k].status = "loaded"]
  /\ data2024' = normalizeData(Array(limit(health_2024, RowLimit)))
  /\ data2025' = normalizeData(Array(limit(health_2025, RowLimit)))
  /\ pageData' = IF mounted = "drinking" THEN pageData
                 ELSE yearData(year, data2024', data2025')
  /\ loading' = FALSE
  /\ UNCHANGED <<health_2024, health_2025, health_2026, isSupabaseConfigured, mounted,
                 error, year, lpc, r2024, r2025,
                 view, cpc, normVars, fetchVars, uploadVars,
                 yearVars, fileVars>>

\* a call in flight gets an answer with an error:
\* setError(err.message || '...'), finally setLoading(false)
FetchFailed ==
  /\ \E k \in 1..Len(fetches) :
       /\ fetches[k].status = "in flight"
       /\ fetches' = [fetches EXCEPT ![k].status = "failed"]
  /\ \E m \in StoreMessages :
       error' = Str(IF m # <<>> THEN m
                    ELSE IF mounted = "overview" THEN FailedToConnect
                    ELSE FailedToFetch)
  /\ loading' = FALSE
  /\ UNCHANGED <<health_2024, health_2025, health_2026, isSupabaseConfigured, mounted,
                 data2024, data2025, pageData, year, lpc, r2024, r2025,
                 view, cpc, normVars, fetchVars, uploadVars,
                 yearVars, fileVars>>

PageNext ==
  \/ MountUnconfigured
  \/ Mount
  \/ SelectYear
  \/ FetchLoaded
  \/ FetchFailed

SpecPage == PageInit /\ [][PageNext]_vars

\* what the page returns at a render: the guards in their order
screen ==
  IF ~isSupabaseConfigured THEN "not connected"
  ELSE IF loading THEN "loading"
  ELSE IF error # Null /\ error # Str(<<>>) THEN "failed"
  ELSE IF mounted = "overview" /\ Len(pageData) = 0 THEN "no data"
  ELSE "dashboard"

InFlight == {k \in 1..Len(fetches) : fetches[k].status = "in flight"}
Loaded == {k \in 1..Len(fetches) : fetches[k].status = "loaded"}
Failed == {k \in 1..Len(fetches) : fetches[k].status = "failed"}

\* the rows of health_<y> as a page holds them
collectionOf(y) == normalizeData(Array(limit(healthOf(y), RowLimit)))

-----------------------------------------------------------------------------
(* Properties of a page under the application *)

\* C22 as stated: whatever four-digit year is selected, 2024, 2025 or a year
\* added at runtime, the collection a page shows as the current year's data
\* is that of health_<year>, never that of another year.
C22_AsStated ==
  (mounted \in {"overview", "employees"} /\ Loaded # {}) =>
    pageData = collectionOf(year)

\* what the pages do: 2024 selects health_2024, every other year health_2025
C22_TwoTables ==
  (mounted \in {"overview", "employees"} /\ Loaded # {}) =>
    pageData = collectionOf(IF year = "2024" THEN "2024" ELSE "2025")

\* C23 as stated: Overview and Drinking are in the failed state exactly when a
\* fetch reported an error, and in the no-data state only when the fetch
\* succeeded and the selected year's collection has no rows, every rate then
\* being 0.
C23_AsStated ==
  (mounted \in {"overview", "drinking"} /\ isSupabaseConfigured) =>
    /\ screen = "failed" <=> Failed # {}
    /\ screen = "no data" =>
         /\ Loaded # {}
         /\ Failed = {}
         /\ Len(collectionOf(year)) = 0
         /\ \A n \in 0..Len(pageData) : rate(n, Len(pageData)) = Zero

\* what holds: the failed state is as claimed, and the no-data state is that
\* of the collection yearData selects
C23_Distinct ==
  (mounted \in {"overview", "drinking"} /\ isSupabaseConfigured) =>
    /\ screen = "failed" <=> Failed # {}
    /\ screen = "no data" =>
         /\ Loaded # {}
         /\ Failed = {}
         /\ Len(collectionOf(IF year = "2024" THEN "2024" ELSE "2025")) = 0
         /\ \A n \in 0..Len(pageData) : rate(n, Len(pageData)) = Zero

\* C27 as stated: with overlapping calls of fetchData (EmployeeOverview on a
\* year change, any page under StrictMode), loading is never false while a
\* call is in flight, and once none is in flight error is set exactly when
\* the call started last failed.
C27_AsStated ==
  (mounted \in {"employees", "drinking"} /\ fetches # <<>>) =>
    /\ ~loading => InFlight = {}
    /\ InFlight = {} => (error # Null <=> fetches[Len(fetches)].status = "failed")

\* the same, for a page that has made one call only
C27_OneCall ==
  (mounted \in {"employees", "drinking"} /\ Len(fetches) = 1) =>
    /\ ~loading => InFlight = {}
    /\ InFlight = {} => (error # Null <=> fetches[1].status = "failed")

-----------------------------------------------------------------------------
(* The years of the top bar: added there, or by an upload that completes *)

\* what is typed into the top bar's new-year field
NewYearTexts ==
  { <<"2", "0", "2", "6">>, <<"1", "9", "9", "9">>, <<"2", "0", "2", "4">>,
    <<" ", "2", "0", "3", "0", " ">>, <<"2", "0", "a", "6">>, <<"2", "0", "2">>,
    <<"2", "0", "2", "6", "7">>, <<"-", "2", "0", "2">>, <<>> }

\* what is typed into the Upload view's year field
UploadYearTexts ==
  { <<"2", "0", "2", "6">>, <<"2", "0", "2", "3">>, <<"2", "0", "a", "2", "7">>,
    <<"2", "6">>, <<"2", "0", "2", "5", "1">> }

\* e.target.value.replace(/\D/g, '').slice(0, 4)
digitsCut(text) ==
  LET digits == SelectSeq(text, LAMBDA c : \E d \in 1..10 : Digits[d] = c)
  IN SubSeq(digits, 1, IF Len(digits) < 4 THEN Len(digits) ELSE 4)

YearsInit ==
  /\ years = getStoredYears(Null)
  /\ localStorage = Str(stringify(years))
  /\ year = <<"2", "0", "2", "5">>
  /\ dataset = <<>>
  /\ parsedRows = FileOf(1, "new")
  /\ uploadYear = <<>>
  /\ uploading = FALSE
  /\ result = NoResult
  /\ uploadError = Null
  /\ batchStart = 0
  /\ successCount = 0
  /\ errorCount = 0
  /\ replies = <<>>
  /\ stored = <<>>
  /\ upc = "ready"
  /\ sent = <<>>
  /\ isSupabaseConfigured = TRUE
  /\ health_2024 = <<>>
  /\ health_2025 = <<>>
  /\ loading = FALSE
  /\ error = Null
  /\ r2024 = Unsettled
  /\ r2025 = Unsettled
  /\ lpc = "idle"
  /\ data2024 = <<>>
  /\ data2025 = <<>>
  /\ view = NoView
  /\ cpc = "idle"
  /\ NormIdle
  /\ FetchIdle
  /\ PageIdle
  /\ FileIdle

\* handleAddYear: the text is trimmed; a four-digit label that is not in the
\* list is added (handleYearAdded, addYear, the effect that stores years) and
\* selected
HandleAddYear ==
  /\ \E newYear \in NewYearTexts :
       LET y == trim(newYear)
       IN IF fourDigits(y) /\ ~includesYear(years, y)
          THEN /\ years' = addYear(y, years)
               /\ localStorage' = Str(stringify(years'))
               /\ year' = y
          ELSE UNCHANGED <<years, localStorage, year>>
  /\ UNCHANGED <<data2024, data2025, view, cpc, normVars, fetchVars, loadVars,
                 uploadVars, pageVars, fileVars>>

\* the year field of the Upload view is edited (not while an upload runs)
SetYear ==
  /\ upc = "ready"
  /\ \E text \in UploadYearTexts : uploadYear' = digitsCut(text)
  /\ UNCHANGED <<dataset, parsedRows, uploading, result, uploadError, batchStart,
                 successCount, errorCount, replies, stored, upc, sent,
                 normVars, cohortVars, fetchVars, loadVars, pageVars, yearVars, fileVars>>

YearsNext ==
  \/ HandleAddYear
  \/ SetYear
  \/ HandleUploadRefused
  \/ HandleUploadStart
  \/ BatchStored
  \/ BatchFailed
  \/ TableMissing

SpecYears == YearsInit /\ [][YearsNext]_vars

labelsOf(labels) == {labels[k] : k \in 1..Len(labels)}

\* the list has no label twice, ascends, holds four-digit labels only, is what
\* the stored item reads back as, and is left as it is by adding one of its years
C28_WellFormed ==
  /\ \A k, l \in 1..Len(years) : k # l => years[k] # years[l]
  /\ \A k \in 1..Len(years) : Len(years[k]) = 4 /\ isDigits(years[k])
  /\ \A k \in 1..(Len(years) - 1) :
       parseDigits(years[k], 0) < parseDigits(years[k + 1], 0)
  /\ localStorage.t = "string"
  /\ getStoredYears(localStorage) = years
  /\ \A k \in 1..Len(years) : addYear(years[k], years) = years

\* a step takes no year from the list and adds at most one
C28_Kept ==
  /\ labelsOf(years) \subseteq labelsOf(years')
  /\ Cardinality(labelsOf(years')) <= Cardinality(labelsOf(years)) + 1

\* C28: after any additions, from the top bar or by a completed upload, to
\* ['2024', '2025'], the list of years has no duplicates, is sorted ascending,
\* holds only four-digit labels and still every year it ever held, and the
\* list stored under 'healthdash_years' equals it; adding a year it holds
\* leaves it unchanged.
C28_Years == [](C28_WellFormed) /\ [][C28_Kept]_vars

\* a year before 2024 was added in the top bar and a year by an upload
C28_Witness ==
  /\ Len(years) >= 4
  /\ years[1] = <<"1", "9", "9", "9">>
  /\ includesYear(years, <<"2", "0", "2", "3">>)
  /\ result.set

-----------------------------------------------------------------------------
(* The batches of handleUpload *)

\* the rows of the batches, one after the other
RECURSIVE C29_Rows(_)
C29_Rows(batches) ==
  IF batches = <<>> THEN <<>> ELSE Head(batches) \o C29_Rows(Tail(batches))

\* the answer to batch k of the current call
C29_Reply(k) == replies[Len(replies) - Len(sent) + k]

\* the rows of the batches of the current call that were answered as ok is TRUE
\* (without an error) or FALSE (with one)
C29_Answered(ok) ==
  Len(C29_Rows(SelectSeq([k \in 1..Len(sent) |->
                            IF (C29_Reply(k) = "") = ok THEN sent[k] ELSE <<>>],
                         LAMBDA batch : TRUE)))

\* handleUpload has returned from the loop of the current call
C29_Returned == upc = "ready" /\ Len(stored) > 0

C29_Aborted == C29_Returned /\ C29_Reply(Len(sent)) = "42P01"

\* C29: handleUpload sends consecutive batches of at most 100 rows that cover
\* every parsed row once and in order; a batch that fails does not stop the
\* later ones; successCount + errorCount is the number of rows sent, each
\* batch counted wholly as success or wholly as error, and the number of
\* parsed rows at the end; a missing-table answer ends the call without a
\* later batch, without a result and without registering the year; and a call
\* that fails a precondition sends nothing.
C29_Batching ==
  /\ Len(sent) <= Len(replies)
  /\ \A k \in 1..Len(sent) :
       /\ Len(sent[k]) >= 1
       /\ Len(sent[k]) <= BATCH
       /\ k < Len(sent) => Len(sent[k]) = BATCH
  /\ C29_Rows(sent) = SubSeq(parsedRows, 1, Len(C29_Rows(sent)))
  /\ (upc = "uploading" \/ (C29_Returned /\ ~C29_Aborted)) =>
       /\ successCount = C29_Answered(TRUE)
       /\ errorCount = C29_Answered(FALSE)
       /\ successCount + errorCount = Len(C29_Rows(sent))
  /\ (C29_Returned /\ ~C29_Aborted) =>
       /\ C29_Rows(sent) = parsedRows
       /\ result = [set |-> TRUE, success |-> successCount, errors |-> errorCount]
       /\ result.success + result.errors = Len(parsedRows)
       /\ includesYear(years, trim(uploadYear))
  /\ C29_Aborted =>
       /\ result = NoResult
       /\ uploadError # Null
  /\ (\A k \in 1..Len(replies) : replies[k] = "42P01") => years = INITIAL_YEARS
  /\ (Len(parsedRows) = 0 \/ ~fourDigits(trim(uploadYear))) =>
       /\ replies = <<>>
       /\ sent = <<>>
       /\ stored = <<>>
       /\ result = NoResult

\* a call over 201 rows whose second batch failed and whose third was stored
C29_Witness ==
  /\ C29_Returned
  /\ Len(sent) = 3
  /\ Len(parsedRows) = 2 * BATCH + 1
  /\ C29_Reply(1) = ""
  /\ C29_Reply(2) = "network"
  /\ C29_Reply(3) = ""
  /\ result = [set |-> TRUE, success |-> BATCH + 1, errors |-> BATCH]

-----------------------------------------------------------------------------
(* pages/Upload.tsx: a file is chosen, read and parsed; reset *)

MaxPicks == 3      \* files given to processFile

\* A file is [name, header, body]: the units of its name, the keys of its
\* first line and the cells of each later line.  A file without a line break
\* has its one line as header and no body line.

\* String.prototype.endsWith
endsWith(s, suffix) ==
  /\ Len(s) >= Len(suffix)
  /\ SubSeq(s, Len(s) - Len(suffix) + 1, Len(s)) = suffix

DotCsv == <<".", "c", "s", "v">>

\* .filter(l => l.trim()): a line of one cell that trims to nothing is dropped
blankLine(line) == Len(line) = 1 /\ trim(line[1]) = <<>>

\* headers.forEach((h, i) => { row[h] = values[i] ?? ''; }), values the
\* trimmed cells of the line
RECURSIVE rowOf(_, _, _, _)
rowOf(headers, values, k, row) ==
  IF k > Len(headers) THEN row
  ELSE rowOf(headers, values, k + 1,
             setProperty(row, headers[k],
                         Str(IF k <= Len(values) THEN trim(values[k]) ELSE <<>>)))

\* parseCSV(text): { headers, rows }; a text of fewer than two lines gives
\* no headers and no rows
parseCSV(f) ==
  IF f.lines < 2 THEN [headers |-> <<>>, rows |-> <<>>]
  ELSE LET kept == SelectSeq(f.body, LAMBDA line : ~blankLine(line))
       IN [headers |-> f.header,
           rows |-> [k \in 1..Len(kept) |-> rowOf(f.header, kept[k], 1, <<>>)]]

FileLine(id, flag) == << <<"E", id>>, flag >>

Files ==
  { [name |-> <<"a", ".", "c", "s", "v">>, lines |-> 3,
     header |-> <<"employee_id", "SMOKE">>,
     body |-> <<FileLine("1", Checkmark), FileLine("2", <<" ">>)>>],
    [name |-> <<"b", ".", "c", "s", "v">>, lines |-> 8,
     header |-> <<"employee_id", "DRINK">>,
     body |-> <<FileLine("3", <<>>), FileLine("4", <<>>), FileLine("5", Checkmark),
                << <<" ">> >>, FileLine("6", <<>>), FileLine("7", <<>>),
                << <<"E", "8">> >> >>],
    \* one line only: the header, no line break
    [name |-> <<"h", ".", "c", "s", "v">>, lines |-> 1,
     header |-> <<"employee_id", "SMOKE">>, body |-> <<>>],
    \* a header and a blank line
    [name |-> <<"e", ".", "c", "s", "v">>, lines |-> 2,
     header |-> <<"employee_id">>, body |-> << << <<>> >> >>],
    \* not a CSV file
    [name |-> <<"x", ".", "x", "l", "s", "x">>, lines |-> 3,
     header |-> <<"employee_id", "SMOKE">>,
     body |-> <<FileLine("9", Checkmark), FileLine("1", <<>>)>>] }

fileNamed(name) == CHOOSE f \in Files : f.name = name

\* what reader.onload stores for a file that parses
rowsOfFile(f) == normalizeData(Array(parseCSV(f).rows))

\* the first file, chosen, read and uploaded
Uploaded(f) ==
  /\ file = Str(f.name)
  /\ parsedRows = rowsOfFile(f)
  /\ totalRows = Len(parseCSV(f).rows)
  /\ preview = slice(rowsOfFile(f), 0, 5)
  /\ result = [set |-> TRUE, success |-> Len(rowsOfFile(f)), errors |-> 0]
  /\ uploadYear = <<"2", "0", "2", "6">>

FileInit ==
  /\ \/ /\ FileIdle
        /\ parsedRows = <<>>
        /\ result = NoResult
        /\ uploadYear \in {<<>>, <<"2", "0", "2", "6">>}
     \/ /\ Uploaded(fileNamed(<<"a", ".", "c", "s", "v">>))
        /\ reading = {}
        /\ picked = <<>>
  /\ uploadError = Null
  /\ dataset = <<>>
  /\ uploading = FALSE
  /\ batchStart = 0
  /\ successCount = 0
  /\ errorCount = 0
  /\ replies = <<>>
  /\ stored = <<>>
  /\ upc = "ready"
  /\ sent = <<>>
  /\ NormIdle
  /\ CohortIdle
  /\ FetchIdle
  /\ LoadIdle
  /\ PageIdle
  /\ YearIdle

Unread ==
  UNCHANGED <<dataset, uploadYear, uploading, batchStart, successCount, errorCount,
              replies, stored, upc, sent,
              normVars, cohortVars, fetchVars, loadVars, pageVars, yearVars>>

\* processFile(f), f not named *.csv: setError(...); return
ProcessFileRejected ==
  /\ Len(picked) < MaxPicks
  /\ \E f \in Files :
       /\ ~endsWith(f.name, DotCsv)
       /\ picked' = Append(picked, f.name)
  /\ uploadError' = Text("Please upload a CSV file (.csv).")
  /\ UNCHANGED <<file, parsedRows, totalRows, preview, result, reading>>
  /\ Unread

\* processFile(f): setFile(f); setResult(null); setError(null);
\* reader.readAsText(f)
ProcessFile ==
  /\ Len(picked) < MaxPicks
  /\ \E f \in Files :
       /\ endsWith(f.name, DotCsv)
       /\ picked' = Append(picked, f.name)
       /\ file' = Str(f.name)
       /\ reading' = reading \cup {f}
  /\ result' = NoResult
  /\ uploadError' = Null
  /\ UNCHANGED <<parsedRows, totalRows, preview>>
  /\ Unread

\* reader.onload, headers.length === 0: setError(...); return
ReaderUnparsable ==
  /\ \E f \in reading :
       /\ Len(parseCSV(f).headers) = 0
       /\ reading' = reading \ {f}
  /\ uploadError' = Text("Could not parse CSV.")
  /\ UNCHANGED <<file, parsedRows, totalRows, preview, result, picked>>
  /\ Unread

\* reader.onload: setTotalRows(rows.length); setParsedRows(normalized);
\* setPreview(normalized.slice(0, 5))
ReaderLoaded ==
  /\ \E f \in reading :
       /\ Len(parseCSV(f).headers) # 0
       /\ reading' = reading \ {f}
       /\ totalRows' = Len(parseCSV(f).rows)
       /\ parsedRows' = rowsOfFile(f)
       /\ preview' = slice(rowsOfFile(f), 0, 5)
  /\ UNCHANGED <<file, result, uploadError, picked>>
  /\ Unread

\* reader.onerror: setError('Failed to read file.')
ReaderError ==
  /\ \E f \in reading : reading' = reading \ {f}
  /\ uploadError' = Text("Failed to read file.")
  /\ UNCHANGED <<file, parsedRows, totalRows, preview, result, picked>>
  /\ Unread

\* reset ('Remove file', shown when a file is)
Reset ==
  /\ file # Null
  /\ file' = Null
  /\ preview' = <<>>
  /\ parsedRows' = <<>>
  /\ totalRows' = 0
  /\ result' = NoResult
  /\ uploadError' = Null
  /\ UNCHANGED <<reading, picked>>
  /\ Unread

FileNext ==
  \/ ProcessFileRejected
  \/ ProcessFile
  \/ ReaderUnparsable
  \/ ReaderLoaded
  \/ ReaderError
  \/ Reset

SpecFile == FileInit /\ [][FileNext]_vars

\* the Upload button is shown
Uploadable == Len(parsedRows) > 0 /\ uploadYear # <<>>

\* C30 as stated: no reading being under way, parsedRows, totalRows and
\* preview are the normalized rows, their number and the first five of the
\* file shown as selected, or there are no rows at all (no file is shown, or
\* the file shown could not be read or parsed): the rows of a file chosen
\* before are never uploadable under the name of the file shown.
C30_AsStated ==
  reading = {} =>
    \/ parsedRows = <<>> /\ totalRows = 0 /\ preview = <<>>
    \/ /\ file # Null
       /\ LET f == fileNamed(file.s)
          IN /\ parsedRows = rowsOfFile(f)
             /\ totalRows = Len(rowsOfFile(f))
             /\ preview = slice(rowsOfFile(f), 0, 5)

\* reset clears the file, the rows, the preview, the result and the error
\* together, and a rejected file changes neither the file shown nor its rows
C30_ResetClears ==
  [][/\ (file # Null /\ file' = Null) =>
          /\ parsedRows' = <<>>
          /\ preview' = <<>>
          /\ totalRows' = 0
          /\ result' = NoResult
          /\ uploadError' = Null
     /\ (Len(picked') > Len(picked) /\ ~endsWith(picked'[Len(picked')], DotCsv)) =>
          UNCHANGED <<file, parsedRows, totalRows, preview>>]_vars

====
